---- MODULE Spec2Model ----
(***************************************************************************)
(* A model of the Toya decoder protocol client                             *)
(* (custom_components/toya_decoder/api): the session client with its       *)
(* cached token and retry-once-on-auth-fault operations, and the fault     *)
(* classifier of _call.                                                    *)
(*                                                                         *)
(* Python values are tagged records [t |-> <type>, v |-> <payload>].       *)
(* A Python str is a sequence of one-character strings, so that strip,     *)
(* lower, split and substring search are computed and not assumed.         *)
(***************************************************************************)
EXTENDS Integers, Sequences, FiniteSets, TLC

VARIABLES
    username,      \* ToyaDecoderApi._username
    password,      \* ToyaDecoderApi._password
    key_delay_s,   \* ToyaDecoderApi._key_delay_s
    token,         \* ToyaDecoderApi._token (PyNone or a PyStr)
    serialized,    \* whether the callers await each operation before the next
    pc,            \* per caller: where its coroutine / worker thread stands
    op,            \* per caller: the operation in flight and its arguments
    tok,           \* per caller: the local variable `token` of the operation
    last_res,      \* per caller: the local variable `res`, what the latest call returned
    retry,         \* per caller: TRUE inside the `except ToyaDecoderAuthError` branch
    digits,        \* per caller: digits of set_channel still to be pressed
    ci,            \* per caller: index of the GetProducts combination of _get_channels
    result,        \* per caller: how the last operation ended
    log,           \* history: remote calls issued by the operation in flight
    reauth,        \* history: executions of the auth-fault handler in this operation
    nGetAuth,      \* history: toyago.GetAuth calls so far (saturating)
    authErrSeen,   \* history: some AuthError was raised so far
    loginTok,      \* history: token cached by the last completed login
    cleanSince,    \* history: no AuthError was raised since that login
    holders,       \* history: callers whose local token is the one now cached
    faulted,       \* history: a call carrying the cached token failed with AuthError
    cleared,       \* history: what the latest auth-fault handler set to None
    cMethod,       \* SpecCall: method name given to _call
    cGen,          \* SpecCall: how the server's answer was built
    cRaw,          \* SpecCall: the server's answer
    cOut,          \* SpecCall: what _call did with it
    dGen,          \* SpecDevices: how the device-list answer was built
    dRes,          \* SpecDevices: the answer given to parse_devices
    dOut           \* SpecDevices: what parse_devices returned

clientVars == <<username, password, key_delay_s, token, serialized, pc, op, tok, last_res,
                retry, digits, ci, result, log, reauth, nGetAuth, authErrSeen,
                loginTok, cleanSince, holders, faulted, cleared>>
callVars == <<cMethod, cGen, cRaw, cOut>>
parseVars == <<dGen, dRes, dOut>>
vars == <<clientVars, callVars, parseVars>>

-----------------------------------------------------------------------------
(* Python values *)

PyNone == [t |-> "none", v |-> <<>>]
PyStr(s) == [t |-> "str", v |-> s]
PyInt(n) == [t |-> "int", v |-> n]
PyList(l) == [t |-> "list", v |-> l]
PyDict(d) == [t |-> "dict", v |-> d]
\* bytes: one element per byte, "\\xff" standing for a byte that is not text
PyBytes(b) == [t |-> "bytes", v |-> b]
Undecodable == "\\xff"
\* A float: inf, -inf or nan (special), or the finite value tenths / 10
PyFloat(special, tenths) == [t |-> "float", v |-> [special |-> special, tenths |-> tenths]]
EmptyDict == PyDict(<<>>)

\* bool(x)
Truthy(x) ==
    CASE x.t = "none" -> FALSE
      [] x.t = "int" -> x.v # 0
      [] x.t = "str" -> Len(x.v) > 0
      [] x.t = "list" -> Len(x.v) > 0
      [] x.t = "dict" -> DOMAIN x.v # {}
      [] x.t = "float" -> x.v.special # "" \/ x.v.tenths # 0
      [] x.t = "bytes" -> Len(x.v) > 0

\* a or b
PyOr(a, b) == IF Truthy(a) THEN a ELSE b

\* d.get(k)
DictGet(d, k) == IF k \in DOMAIN d.v THEN d.v[k] ELSE PyNone

DigitChar == <<"0", "1", "2", "3", "4", "5", "6", "7", "8", "9">>

RECURSIVE NatToStr(_)
NatToStr(n) ==
    IF n < 10 THEN <<DigitChar[n + 1]>>
    ELSE NatToStr(n \div 10) \o <<DigitChar[(n % 10) + 1]>>

\* The order in which the keys of a keyed structure are iterated
KeyOrder ==
    <<"faultCode", "faultcode", "fault_code", "faultString", "faultstring",
      "fault_string", "message", "token", "auth", "authToken", "authorization",
      "result", "value", "products", "devices", "smartcard", "chipid", "status">>

RECURSIVE JoinSeq(_, _)
JoinSeq(parts, sep) ==
    IF parts = <<>> THEN <<>>
    ELSE IF Len(parts) = 1 THEN parts[1]
    ELSE parts[1] \o sep \o JoinSeq(Tail(parts), sep)

\* The keys of d, in iteration order
RECURSIVE KeysFrom(_, _)
KeysFrom(d, i) ==
    IF i > Len(KeyOrder) THEN <<>>
    ELSE (IF KeyOrder[i] \in DOMAIN d.v THEN <<KeyOrder[i]>> ELSE <<>>)
         \o KeysFrom(d, i + 1)

\* repr(x); a key of a keyed structure is one character of the text
RECURSIVE PyRepr(_)
PyRepr(x) ==
    CASE x.t = "none" -> <<"N", "o", "n", "e">>
      [] x.t = "int" -> IF x.v < 0 THEN <<"-">> \o NatToStr(0 - x.v) ELSE NatToStr(x.v)
      [] x.t = "str" -> <<"'">> \o x.v \o <<"'">>
      [] x.t = "bytes" -> <<"b", "'">> \o x.v \o <<"'">>
      [] x.t = "float" ->
            IF x.v.special # "" THEN <<x.v.special>>
            ELSE LET a == IF x.v.tenths < 0 THEN 0 - x.v.tenths ELSE x.v.tenths
                 IN (IF x.v.tenths < 0 THEN <<"-">> ELSE <<>>)
                    \o NatToStr(a \div 10) \o <<".">> \o NatToStr(a % 10)
      [] x.t = "list" ->
            <<"[">> \o JoinSeq([i \in 1..Len(x.v) |-> PyRepr(x.v[i])], <<",", " ">>)
                    \o <<"]">>
      [] x.t = "dict" ->
            LET ks == KeysFrom(x, 1)
            IN <<"{">> \o JoinSeq([i \in 1..Len(ks) |->
                                    <<"'", ks[i], "'", ":", " ">> \o PyRepr(x.v[ks[i]])],
                                  <<",", " ">>)
                       \o <<"}">>

\* str(x)
PyStrOf(x) == IF x.t = "str" THEN x.v ELSE PyRepr(x)

UpperLetters ==
    {"A", "B", "C", "D", "E", "F", "G", "H", "I", "J", "K", "L", "M", "N", "O",
     "P", "Q", "R", "S", "T", "U", "V", "W", "X", "Y", "Z"}

LowerOf ==
    "A" :> "a" @@ "B" :> "b" @@ "C" :> "c" @@ "D" :> "d" @@ "E" :> "e" @@
    "F" :> "f" @@ "G" :> "g" @@ "H" :> "h" @@ "I" :> "i" @@ "J" :> "j" @@
    "K" :> "k" @@ "L" :> "l" @@ "M" :> "m" @@ "N" :> "n" @@ "O" :> "o" @@
    "P" :> "p" @@ "Q" :> "q" @@ "R" :> "r" @@ "S" :> "s" @@ "T" :> "t" @@
    "U" :> "u" @@ "V" :> "v" @@ "W" :> "w" @@ "X" :> "x" @@ "Y" :> "y" @@
    "Z" :> "z"

\* str.lower()
Lower(s) == [i \in 1..Len(s) |-> IF s[i] \in UpperLetters THEN LowerOf[s[i]] ELSE s[i]]

\* sub in s
Contains(s, sub) ==
    \E i \in 1..(Len(s) - Len(sub) + 1) : SubSeq(s, i, i + Len(sub) - 1) = sub

-----------------------------------------------------------------------------
(* api/errors.py: the exception classes.  "Other" stands for an exception  *)
(* that is none of the client's (it is not caught by the client at all).   *)

ToyaDecoderApiError == "ToyaDecoderApiError"
ToyaDecoderConnectionError == "ToyaDecoderConnectionError"
ToyaDecoderAuthError == "ToyaDecoderAuthError"
NoError == "none"

\* isinstance(e, ToyaDecoderApiError): the two others derive from it
IsApiError(e) ==
    e \in {ToyaDecoderApiError, ToyaDecoderConnectionError, ToyaDecoderAuthError}

-----------------------------------------------------------------------------
(* api/auth.py: the fault classifier *)

sNotAuthor == <<"n", "o", "t", " ", "a", "u", "t", "h", "o", "r">>
sUnauthor == <<"u", "n", "a", "u", "t", "h", "o", "r">>

RECURSIVE _extract_fault_payload(_)
_extract_fault_payload(res) ==
    IF res.t = "dict" THEN
        LET code == PyOr(PyOr(DictGet(res, "faultCode"), DictGet(res, "faultcode")),
                         DictGet(res, "fault_code"))
            text == PyOr(PyOr(PyOr(DictGet(res, "faultString"),
                                   DictGet(res, "faultstring")),
                              DictGet(res, "fault_string")),
                         DictGet(res, "message"))
        IN <<code, IF text.t # "none" THEN PyStr(PyStrOf(text)) ELSE PyNone>>
    ELSE IF res.t = "list" THEN
        LET found == {i \in 1..Len(res.v) :
                        LET p == _extract_fault_payload(res.v[i])
                        IN p[1].t # "none" \/ Truthy(p[2])}
        IN IF found = {} THEN <<PyNone, PyNone>>
           ELSE _extract_fault_payload(
                    res.v[CHOOSE i \in found : \A j \in found : i <= j])
    ELSE <<PyNone, PyNone>>

is_auth_fault_message_CaseSensitive(text) ==
    IF ~Truthy(text) THEN FALSE
    ELSE Contains(text.v, sNotAuthor) \/ Contains(text.v, sUnauthor)

is_auth_fault_message(text) ==
    IF ~Truthy(text) THEN FALSE
    ELSE LET lowered == Lower(text.v)
         IN Contains(lowered, sNotAuthor) \/ Contains(lowered, sUnauthor)

_is_auth_fault(res) ==
    LET p == _extract_fault_payload(res)
        code == p[1]
        text == p[2]
    IN IF code.t = "none" /\ ~Truthy(text) THEN FALSE
       ELSE IF is_auth_fault_message(text) THEN TRUE
       ELSE PyStrOf(code) = <<"2">>

\* TRUE when raise_if_auth_fault raises ToyaDecoderAuthError
raise_if_auth_fault(res) == _is_auth_fault(res)

-----------------------------------------------------------------------------
(* api/client.py: _call.  The server's answer is                           *)
(*   k = "response":      a value `body` returned by the remote method     *)
(*   k = "Fault":         xmlrpc.client.Fault(code, msg) raised            *)
(*   k = "ProtocolError": xmlrpc.client.ProtocolError raised               *)
(*   k = "OSError":       a socket / OS level error raised                 *)
(*   k = "Other":         any other exception (xmlrpc ResponseError, ...)  *)

Response(body) == [k |-> "response", body |-> body, code |-> PyNone, msg |-> PyNone]
Fault(code, msg) == [k |-> "Fault", body |-> PyNone, code |-> code, msg |-> msg]
ProtocolError == [k |-> "ProtocolError", body |-> PyNone, code |-> PyNone, msg |-> PyNone]
OSError == [k |-> "OSError", body |-> PyNone, code |-> PyNone, msg |-> PyNone]
OtherError == [k |-> "Other", body |-> PyNone, code |-> PyNone, msg |-> PyNone]

GetAuth == "toyago.GetAuth"
SetVersion == "toyago.SetVersion"
GetPvrDevices == "toyago.GetPvrDevices"
SetStbCmd == "toyago.SetStbCmd"
GetProducts == "toyago.GetProducts"
Methods == {GetAuth, SetVersion, GetPvrDevices, SetStbCmd, GetProducts}

Raised(e) == [err |-> e, res |-> PyNone]
Returned(body) == [err |-> NoError, res |-> body]

\* The exception classes that can leave the try block of _call, each with
\* its base classes (xmlrpc.client and builtins; api/errors.py for the
\* client's own).  isinstance(e, cls) is cls \in Bases[e].
Bases ==
    [e \in {"Fault", "ProtocolError", "OSError", "Other", ToyaDecoderAuthError} |->
        CASE e = "Fault" -> {"Fault", "xmlrpc.Error", "Exception"}
          [] e = "ProtocolError" -> {"ProtocolError", "xmlrpc.Error", "Exception"}
          [] e = "OSError" -> {"OSError", "Exception"}
          [] e = "Other" -> {"Other", "Exception"}
          [] e = ToyaDecoderAuthError ->
                {ToyaDecoderAuthError, ToyaDecoderApiError, "Exception"}]

\* The try block: the remote method is invoked, then raise_if_auth_fault.
\* Gives the exception class raised in the block, or NoError.
TryBlock(raw) ==
    IF raw.k = "response"
    THEN IF raise_if_auth_fault(raw.body) THEN ToyaDecoderAuthError ELSE NoError
    ELSE raw.k

\* The last handler widened to `except Exception`
_call_BroadExcept(method, raw) ==
    LET exc == TryBlock(raw)
    IN IF exc = NoError THEN Returned(raw.body)
       ELSE IF "Fault" \in Bases[exc] THEN
            IF method = GetAuth \/ is_auth_fault_message(raw.msg)
            THEN Raised(ToyaDecoderAuthError)
            ELSE Raised(ToyaDecoderApiError)
       ELSE IF "ProtocolError" \in Bases[exc] THEN Raised(ToyaDecoderConnectionError)
       ELSE IF "Exception" \in Bases[exc] THEN Raised(ToyaDecoderConnectionError)
       ELSE Raised(exc)

_call(method, raw) ==
    LET exc == TryBlock(raw)
    IN IF exc = NoError THEN Returned(raw.body)
       ELSE IF "Fault" \in Bases[exc] THEN
            IF method = GetAuth \/ is_auth_fault_message(raw.msg)
            THEN Raised(ToyaDecoderAuthError)
            ELSE Raised(ToyaDecoderApiError)
       ELSE IF "ProtocolError" \in Bases[exc] THEN Raised(ToyaDecoderConnectionError)
       ELSE IF "OSError" \in Bases[exc] THEN Raised(ToyaDecoderConnectionError)
       ELSE Raised(exc)

-----------------------------------------------------------------------------
(* Answers of the server given to _call in SpecCall.  A fault is built     *)
(* from a code, a message (prefix, core, suffix) and the key variants it   *)
(* is stored under, and is delivered in one of two forms: embedded in a    *)
(* response body (possibly inside nested sequences) or raised as an RPC    *)
(* fault exception.                                                        *)

MaxNest == 2

CodeKeys == {"faultCode", "faultcode", "fault_code"}
TextKeys == {"faultString", "faultstring", "fault_string", "message"}

Codes == {PyNone, PyInt(0), PyInt(2), PyInt(5), PyInt(22),
          PyStr(<<"2">>), PyStr(<<"5">>), PyStr(<<>>)}

AuthCores ==
    {<<"n", "o", "t", " ", "a", "u", "t", "h", "o", "r">>,
     <<"u", "n", "a", "u", "t", "h", "o", "r">>,
     <<"N", "O", "T", " ", "A", "U", "T", "H", "O", "R">>,
     <<"U", "n", "A", "u", "t", "h", "o", "r">>}
OtherCores ==
    {<<"n", "o", "t", "a", "u", "t", "h", "o", "r">>,
     <<"u", "n", "a", "u", "t", "h">>,
     <<"b", "a", "d", " ", "p", "a", "r", "a", "m">>,
     <<"x">>}
Prefixes == {<<>>, <<"U", "s", "e", "r", " ">>}
Suffixes == {<<>>, <<"i", "z", "e", "d">>}

\* "none": no message at all; otherwise prefix \o core \o suffix
Texts ==
    {[has |-> FALSE, pre |-> <<>>, core |-> <<>>, suf |-> <<>>]} \cup
    [has : {TRUE}, pre : Prefixes, core : AuthCores \cup OtherCores, suf : Suffixes]

TextValue(tx) == IF tx.has THEN PyStr(tx.pre \o tx.core \o tx.suf) ELSE PyNone

Leads == {"none", "dict"}

\* Bodies that hold neither a fault code nor a fault message
PlainBodies ==
    [none |-> PyNone,
     text |-> PyStr(<<"U", "n", "a", "u", "t", "h", "o", "r", "i", "z", "e", "d">>),
     two |-> PyInt(2),
     empty |-> PyList(<<>>),
     nulls |-> PyDict([faultCode |-> PyNone, faultString |-> PyStr(<<>>)]),
     other |-> PyDict([result |-> PyStr(<<"n", "o", "t", " ", "a", "u", "t", "h", "o", "r">>),
                       status |-> PyInt(2)])]

Gens ==
    {g \in [form : {"body", "Fault"}, code : Codes, ck : CodeKeys,
            text : Texts, tk : TextKeys, depth : 0..MaxNest, lead : Leads] :
        /\ (g.code = PyNone => g.ck = "faultCode")
        /\ (~g.text.has => g.tk = "faultString")
        /\ (g.depth = 0 => g.lead = "none")
        /\ (g.form = "Fault" =>
                g.depth = 0 /\ g.ck = "faultCode" /\ g.tk = "faultString")}
    \cup
    {[form |-> f, code |-> PyNone, ck |-> "faultCode",
      text |-> [has |-> FALSE, pre |-> <<>>, core |-> <<>>, suf |-> <<>>],
      tk |-> "faultString", depth |-> 0, lead |-> "none"] :
        f \in {"ProtocolError", "OSError", "Other"}}
    \cup
    {[form |-> "plain", code |-> PyNone, ck |-> b,
      text |-> [has |-> FALSE, pre |-> <<>>, core |-> <<>>, suf |-> <<>>],
      tk |-> "faultString", depth |-> d, lead |-> "none"] :
        b \in DOMAIN PlainBodies, d \in 0..MaxNest}

\* The keyed structure holding the fault: {ck: code, tk: text}
FaultDict(g) ==
    PyDict((IF g.code # PyNone THEN g.ck :> g.code ELSE <<>>) @@
           (IF g.text.has THEN g.tk :> TextValue(g.text) ELSE <<>>))

RECURSIVE Nest(_, _, _)
Nest(body, depth, lead) ==
    IF depth = 0 THEN body
    ELSE LET inner == Nest(body, depth - 1, lead)
         IN CASE lead = "none" -> PyList(<<inner>>)
              [] lead = "dict" -> PyList(<<EmptyDict, PyStr(<<"o", "k">>), inner>>)

BuildRaw(g) ==
    CASE g.form = "body" -> Response(Nest(FaultDict(g), g.depth, g.lead))
      [] g.form = "plain" -> Response(Nest(PlainBodies[g.ck], g.depth, g.lead))
      [] g.form = "Fault" -> Fault(g.code, TextValue(g.text))
      [] g.form = "ProtocolError" -> ProtocolError
      [] g.form = "OSError" -> OSError
      [] g.form = "Other" -> OtherError

Pending == [err |-> "pending", res |-> PyNone]

-----------------------------------------------------------------------------
(* Python str methods on character sequences *)

Whitespace == {" ", "\t", "\n"}

RECURSIVE LStrip(_)
LStrip(s) == IF s # <<>> /\ Head(s) \in Whitespace THEN LStrip(Tail(s)) ELSE s

RECURSIVE RStrip(_)
RStrip(s) ==
    IF s # <<>> /\ s[Len(s)] \in Whitespace THEN RStrip(SubSeq(s, 1, Len(s) - 1)) ELSE s

\* s.strip()
Strip(s) == RStrip(LStrip(s))

StartsWith(s, c) == s # <<>> /\ s[1] = c
EndsWith(s, c) == s # <<>> /\ s[Len(s)] = c

\* "sup2" stands for a non-ASCII character such as the superscript two, for
\* which str.isdigit() is true as well
AsciiDigits == {"0", "1", "2", "3", "4", "5", "6", "7", "8", "9"}
OtherDigits == {"sup2"}

\* s.isdigit()
IsDigit(s) == s # <<>> /\ \A i \in 1..Len(s) : s[i] \in AsciiDigits \cup OtherDigits

-----------------------------------------------------------------------------
(* api/auth.py: token extraction *)

\* "=".join(token.split("=")[1:]): what follows the first "="
AfterFirstEq(s) ==
    LET eqs == {i \in 1..Len(s) : s[i] = "="}
        first == CHOOSE i \in eqs : \A j \in eqs : i <= j
    IN SubSeq(s, first + 1, Len(s))

_normalize_token(raw) ==
    LET t0 == Strip(raw)
        t1 == IF \E i \in 1..Len(t0) : t0[i] = "=" THEN Strip(AfterFirstEq(t0)) ELSE t0
        t2 == IF EndsWith(t1, ";") THEN Strip(SubSeq(t1, 1, Len(t1) - 1)) ELSE t1
        t3 == IF StartsWith(t2, "\"") /\ EndsWith(t2, "\"") /\ Len(t2) >= 2
              THEN SubSeq(t2, 2, Len(t2) - 1) ELSE t2
    IN IF t0 = <<>> THEN t0 ELSE t3

TokenKeys == <<"token", "auth", "authToken", "authorization", "result", "value">>

\* PyNone, or the token as a non-empty PyStr
RECURSIVE _extract_token_from_value(_)
_extract_token_from_value(res) ==
    CASE res.t = "none" -> PyNone
      [] res.t \in {"str", "int"} ->
            LET tk == _normalize_token(PyStrOf(res))
            IN IF tk = <<>> THEN PyNone ELSE PyStr(tk)
      [] res.t = "list" ->
            LET hits == {i \in 1..Len(res.v) :
                            Truthy(_extract_token_from_value(res.v[i]))}
            IN IF hits = {} THEN PyNone
               ELSE _extract_token_from_value(
                        res.v[CHOOSE i \in hits : \A j \in hits : i <= j])
      [] res.t = "dict" ->
            LET hits == {i \in 1..Len(TokenKeys) :
                            /\ TokenKeys[i] \in DOMAIN res.v
                            /\ Truthy(_extract_token_from_value(res.v[TokenKeys[i]]))}
            IN IF hits # {}
               THEN _extract_token_from_value(
                        res.v[TokenKeys[CHOOSE i \in hits : \A j \in hits : i <= j]])
               ELSE IF Cardinality(DOMAIN res.v) = 1
               THEN _extract_token_from_value(res.v[CHOOSE k \in DOMAIN res.v : TRUE])
               ELSE PyNone

\* extract_token: the token, or ToyaDecoderAuthError raised
extract_token_Lenient(res) ==
    LET tk == _extract_token_from_value(res)
    IN [err |-> NoError, token |-> PyOr(tk, PyStr(<<>>))]

extract_token(res) ==
    LET tk == _extract_token_from_value(res)
    IN IF ~Truthy(tk) THEN [err |-> ToyaDecoderAuthError, token |-> PyNone]
       ELSE [err |-> NoError, token |-> tk]

-----------------------------------------------------------------------------
(* const.py and api/utils.py: the recognized commands *)

REMOTE_COMMANDS ==
    {<<"p", "l", "a", "y", "p", "a", "u", "s", "e">>, <<"p", "r", "e", "v">>,
     <<"l", "a", "s", "t">>, <<"a", "u", "d", "i", "o">>, <<"p", "v", "r">>,
     <<"s", "t", "o", "p">>, <<"r", "e", "c">>, <<"b", "l", "u", "e">>,
     <<"y", "e", "l", "l", "o", "w">>, <<"g", "r", "e", "e", "n">>,
     <<"r", "e", "d">>, <<"m", "e", "n", "u">>, <<"m", "u", "t", "e">>,
     <<"l", "i", "s", "t">>, <<"0">>, <<"1">>, <<"2">>, <<"3">>, <<"4">>,
     <<"5">>, <<"6">>, <<"7">>, <<"8">>, <<"9">>, <<"p", "o", "w", "e", "r">>,
     <<"v", "o", "d">>, <<"e", "p", "g">>, <<"o", "p", "t">>,
     <<"b", "a", "c", "k">>, <<"o", "k">>, <<"u", "p">>, <<"d", "o", "w", "n">>,
     <<"l", "e", "f", "t">>, <<"r", "i", "g", "h", "t">>, <<"f", "f", "w">>}

normalize_cmd_Unchecked(key) == [err |-> NoError, cmd |-> Lower(Strip(key))]

\* normalize_cmd: the command, or ToyaDecoderApiError raised
normalize_cmd(key) ==
    LET text == Strip(key)
        cmd == Lower(text)
    IN IF Len(text) = 1 /\ IsDigit(text) THEN [err |-> NoError, cmd |-> text]
       ELSE IF cmd \in REMOTE_COMMANDS THEN [err |-> NoError, cmd |-> cmd]
       ELSE [err |-> ToyaDecoderApiError, cmd |-> <<>>]

-----------------------------------------------------------------------------
(* api/devices.py *)

\* int(value) of _safe_int: the integer a text spells, if it spells one
DigitValue == [c \in AsciiDigits |-> CHOOSE n \in 0..9 : DigitChar[n + 1] = c]

RECURSIVE NatOfDigits(_)
NatOfDigits(s) ==
    IF s = <<>> THEN 0 ELSE 10 * NatOfDigits(SubSeq(s, 1, Len(s) - 1)) + DigitValue[s[Len(s)]]

SpellsInt(s) ==
    LET t == Strip(s)
        body == IF t # <<>> /\ t[1] \in {"+", "-"} THEN Tail(t) ELSE t
    IN body # <<>> /\ \A i \in 1..Len(body) : body[i] \in AsciiDigits

IntOfStr(s) ==
    LET t == Strip(s)
    IN IF t[1] = "-" THEN 0 - NatOfDigits(Tail(t))
       ELSE IF t[1] = "+" THEN NatOfDigits(Tail(t))
       ELSE NatOfDigits(t)

\* int(value): the integer, or the exception the conversion raises
int(value) ==
    CASE value.t = "int" -> [err |-> NoError, v |-> value.v]
      [] value.t \in {"str", "bytes"} ->
            IF SpellsInt(value.v) THEN [err |-> NoError, v |-> IntOfStr(value.v)]
            ELSE [err |-> "ValueError", v |-> 0]
      [] value.t = "float" ->
            IF value.v.special \in {"inf", "-inf"} THEN [err |-> "OverflowError", v |-> 0]
            ELSE IF value.v.special = "nan" THEN [err |-> "ValueError", v |-> 0]
            ELSE IF value.v.tenths < 0
            THEN [err |-> NoError, v |-> 0 - ((0 - value.v.tenths) \div 10)]
            ELSE [err |-> NoError, v |-> value.v.tenths \div 10]
      [] OTHER -> [err |-> "TypeError", v |-> 0]

\* try: return int(value) / except (TypeError, ValueError): return 0
_safe_int(value) ==
    LET r == int(value)
    IN IF r.err \in {"TypeError", "ValueError"} THEN [err |-> NoError, v |-> 0] ELSE r

\* const.py: DeviceStatus
DeviceStatus == (0 :> "OFF") @@ (1 :> "ON") @@ (2 :> "ATV") @@ (-1 :> "UNKNOWN")

\* The status name, or the exception _safe_int let through
_status_from_value(value) ==
    LET numeric == _safe_int(value)
    IN IF numeric.err # NoError THEN [err |-> numeric.err, v |-> "UNKNOWN"]
       ELSE IF numeric.v \in DOMAIN DeviceStatus
       THEN [err |-> NoError, v |-> DeviceStatus[numeric.v]]
       ELSE [err |-> NoError, v |-> "UNKNOWN"]

ToyaDecoderDevice(smart_card, status, chip_id) ==
    [smart_card |-> smart_card, status |-> status, chip_id |-> chip_id]

\* The loop over a sequence of entries (structured path)
RECURSIVE DevicesOfList_NoChipCheck(_, _)
DevicesOfList_NoChipCheck(items, out) ==
    IF items = <<>> THEN [err |-> NoError, v |-> out]
    ELSE LET item == Head(items)
             smart_card == DictGet(item, "smartcard")
             chip_id == DictGet(item, "chipid")
             status == IF "status" \in DOMAIN item.v THEN item.v["status"] ELSE PyInt(0)
         IN IF item.t = "dict" /\ Truthy(smart_card)
            THEN LET st == _status_from_value(status)
                 IN IF st.err # NoError THEN [err |-> st.err, v |-> <<>>]
                    ELSE DevicesOfList_NoChipCheck(Tail(items),
                            Append(out, ToyaDecoderDevice(PyStrOf(smart_card), st.v,
                                                          PyStrOf(chip_id))))
            ELSE DevicesOfList_NoChipCheck(Tail(items), out)

\* `out` is the list built so far; an exception ends the loop
RECURSIVE DevicesOfList(_, _)
DevicesOfList(items, out) ==
    IF items = <<>> THEN [err |-> NoError, v |-> out]
    ELSE LET item == Head(items)
             smart_card == DictGet(item, "smartcard")
             chip_id == DictGet(item, "chipid")
             status == IF "status" \in DOMAIN item.v THEN item.v["status"] ELSE PyInt(0)
         IN IF item.t = "dict" /\ Truthy(smart_card) /\ chip_id.t # "none"
            THEN LET st == _status_from_value(status)
                 IN IF st.err # NoError THEN [err |-> st.err, v |-> <<>>]
                    ELSE DevicesOfList(Tail(items),
                            Append(out, ToyaDecoderDevice(PyStrOf(smart_card), st.v,
                                                          PyStrOf(chip_id))))
            ELSE DevicesOfList(Tail(items), out)

\* re.split(r"=|, |\}\{|\{|\}", raw): the length of the delimiter at raw[i], or 0
DelimAt(raw, i) ==
    IF raw[i] = "=" THEN 1
    ELSE IF raw[i] = "," /\ i < Len(raw) /\ raw[i + 1] = " " THEN 2
    ELSE IF raw[i] = "}" /\ i < Len(raw) /\ raw[i + 1] = "{" THEN 2
    ELSE IF raw[i] \in {"{", "}"} THEN 1
    ELSE 0

\* the parts of the split from position i on, `cur` being the part under way
RECURSIVE SplitFrom(_, _, _)
SplitFrom(raw, i, cur) ==
    IF i > Len(raw) THEN <<cur>>
    ELSE LET d == DelimAt(raw, i)
         IN IF d > 0 THEN <<cur>> \o SplitFrom(raw, i + d, <<>>)
            ELSE SplitFrom(raw, i + 1, Append(cur, raw[i]))

\* the accumulator loop of the legacy path; acc holds key, smart_card,
\* chip_id and status (PyNone: not seen yet)
RECURSIVE LegacyLoop(_, _, _)
LegacyLoop(parts, idx, acc) ==
    IF idx > Len(parts) THEN <<>>
    ELSE IF (idx - 1) % 2 = 0
    THEN LegacyLoop(parts, idx + 1, [acc EXCEPT !.key = parts[idx]])
    ELSE LET value == parts[idx]
             a1 == CASE acc.key = <<"s", "t", "a", "t", "u", "s">> ->
                            [acc EXCEPT !.status = PyStr(_status_from_value(PyStr(value)).v)]
                     [] acc.key = <<"s", "m", "a", "r", "t", "c", "a", "r", "d">> ->
                            [acc EXCEPT !.smart_card = PyStr(value)]
                     [] acc.key = <<"c", "h", "i", "p", "i", "d">> ->
                            [acc EXCEPT !.chip_id = PyStr(value)]
                     [] OTHER -> acc
             full == a1.smart_card.t # "none" /\ a1.status.t # "none"
                        /\ a1.chip_id.t # "none"
         IN IF full
            THEN <<ToyaDecoderDevice(a1.smart_card.v, a1.status.v, a1.chip_id.v)>>
                 \o LegacyLoop(parts, idx + 1,
                       [a1 EXCEPT !.smart_card = PyNone, !.chip_id = PyNone,
                                  !.status = PyNone])
            ELSE LegacyLoop(parts, idx + 1, a1)

\* The list returned, or the exception that left parse_devices
parse_devices(res) ==
    IF ~Truthy(res) THEN [err |-> NoError, v |-> <<>>]
    ELSE LET devices == IF res.t = "dict" /\ "devices" \in DOMAIN res.v
                        THEN res.v["devices"] ELSE res
         IN IF devices.t = "list" THEN DevicesOfList(devices.v, <<>>)
            ELSE LET raw0 == Strip(PyStrOf(devices))
                     raw == IF \/ StartsWith(raw0, "[") /\ EndsWith(raw0, "]")
                               \/ StartsWith(raw0, "{") /\ EndsWith(raw0, "}")
                            THEN SubSeq(raw0, 2, Len(raw0) - 1) ELSE raw0
                     split == SplitFrom(raw, 1, <<>>)
                     parts == SelectSeq(split, LAMBDA part : part # <<>>)
                 IN [err |-> NoError,
                     v |-> LegacyLoop(parts, 1,
                              [key |-> <<>>, smart_card |-> PyNone, chip_id |-> PyNone,
                               status |-> PyNone])]

-----------------------------------------------------------------------------
(* api/channels.py.  The text of a GetProducts answer is taken as lexed:   *)
(* an opening <object type="product" id="X"> tag and the closing           *)
(* </object> tag are one character each.                                   *)

ObjectId ==
    ("<object type=\"product\" id=\"5\">" :> <<"5">>) @@
    ("<object type=\"product\" id=\"7\">" :> <<"7">>)
ObjectClose == "</object>"

RECURSIVE extract_products_xml(_)
extract_products_xml(res) ==
    CASE res.t = "none" -> <<>>
      [] res.t = "bytes" -> SelectSeq(res.v, LAMBDA b : b # Undecodable)
      [] res.t = "str" -> res.v
      [] res.t = "list" -> JoinSeq([i \in 1..Len(res.v) |-> PyStrOf(res.v[i])], <<>>)
      [] res.t = "dict" /\ "products" \in DOMAIN res.v ->
            extract_products_xml(res.v["products"])
      [] OTHER -> PyStrOf(res)

\* The tags inside a product, lexed the same way: <attr key="K"> per key,
\* <value>, </value> and </attr>; "&amp;" is one character of the text
AttrKeyOf ==
    ("<attr key=\"name\">" :> "name") @@
    ("<attr key=\"shortTitle\">" :> "shortTitle") @@
    ("<attr key=\"thumbnail\">" :> "thumbnail") @@
    ("<attr key=\"number\">" :> "number") @@
    ("<attr key=\"channel_number\">" :> "channel_number") @@
    ("<attr key=\"lcn\">" :> "lcn") @@
    ("<attr key=\"position\">" :> "position")
ValueOpen == "<value>"
ValueClose == "</value>"
AttrClose == "</attr>"

\* html.unescape
unescape(text) == [i \in 1..Len(text) |-> IF text[i] = "&amp;" THEN "&" ELSE text[i]]

\* pattern.search(body): the leftmost <attr key="K"> that has a <value>
\* after it and a </value> after that; [\s\S]*? stops at the nearest of each
_extract_attr_value(body, key) ==
    LET opens == {a \in 1..Len(body) :
                    /\ body[a] \in DOMAIN AttrKeyOf
                    /\ AttrKeyOf[body[a]] = key
                    /\ \E b \in (a + 1)..Len(body) :
                          /\ body[b] = ValueOpen
                          /\ \E c \in (b + 1)..Len(body) : body[c] = ValueClose}
    IN IF opens = {} THEN PyNone
       ELSE LET a == CHOOSE x \in opens : \A y \in opens : x <= y
                vs == {b \in (a + 1)..Len(body) : body[b] = ValueOpen}
                b == CHOOSE x \in vs : \A y \in vs : x <= y
                cs == {c \in (b + 1)..Len(body) : body[c] = ValueClose}
                c == CHOOSE x \in cs : \A y \in cs : x <= y
            IN PyStr(unescape(Strip(SubSeq(body, b + 1, c - 1))))

ToyaDecoderChannel(id, number, name, thumbnail) ==
    [id |-> id, number |-> number, name |-> name, thumbnail |-> thumbnail]

\* The body of the loop of parse_channels
ChannelOf(channel_id, body) ==
    LET name == PyOr(_extract_attr_value(body, "name"),
                     _extract_attr_value(body, "shortTitle"))
        thumbnail == _extract_attr_value(body, "thumbnail")
        number_raw == PyOr(_extract_attr_value(body, "number"),
                      PyOr(_extract_attr_value(body, "channel_number"),
                      PyOr(_extract_attr_value(body, "lcn"),
                           _extract_attr_value(body, "position"))))
        parsed == int(PyStr(Strip(PyStrOf(number_raw))))
        number == IF Truthy(number_raw) /\ parsed.err = NoError THEN PyInt(parsed.v)
                  ELSE PyNone
    IN ToyaDecoderChannel(channel_id, number, name, thumbnail)

\* pattern.finditer(xml) from position i on: the leftmost opening tag that
\* has a closing tag after it, up to the nearest such closing tag
RECURSIVE ChannelsFrom(_, _)
ChannelsFrom(xml, i) ==
    LET opens == {a \in i..Len(xml) :
                    /\ xml[a] \in DOMAIN ObjectId
                    /\ \E b \in (a + 1)..Len(xml) : xml[b] = ObjectClose}
    IN IF opens = {} THEN <<>>
       ELSE LET a == CHOOSE x \in opens : \A y \in opens : x <= y
                closes == {b \in (a + 1)..Len(xml) : xml[b] = ObjectClose}
                b == CHOOSE x \in closes : \A y \in closes : x <= y
            IN <<ChannelOf(ObjectId[xml[a]], SubSeq(xml, a + 1, b - 1))>>
               \o ChannelsFrom(xml, b + 1)

parse_channels(xml) == ChannelsFrom(xml, 1)

sObjectObject ==
    <<"[", "o", "b", "j", "e", "c", "t", " ", "O", "b", "j", "e", "c", "t", "]">>

-----------------------------------------------------------------------------
(* api/client.py: ToyaDecoderApi.  Two callers share one client instance:  *)
(* the coordinator's poll and the media player's commands.  A step of a    *)
(* caller is what runs between two suspension points of its coroutine, or  *)
(* one remote call of the worker thread it awaits.                         *)

Procs == {"poll", "cmd"}

MaxDigits == 2
MaxCount == 2

sT1 == <<"t", "1">>
sT2 == <<"t", "2">>
sOK == <<"O", "K">>
sBadParam == <<"b", "a", "d", " ", "p", "a", "r", "a", "m">>
sNotAuthorized == <<"U", "s", "e", "r", " ", "n", "o", "t", " ", "a", "u", "t", "h",
                    "o", "r", "i", "z", "e", "d">>

\* Arguments the callers pass
SmartCards == {<<"0", "0", "1">>, <<" ">>}
Keys == {<<"5">>, <<" ", "O", "K", " ">>, <<"b", "o", "g", "u", "s">>, <<"sup2">>,
         <<"1", "2">>, <<>>}
Channels ==
    UNION {[1..k -> {"1", "2"}] : k \in 1..MaxDigits}
    \cup {<<"1", "2", "a">>, <<>>, <<" ", "1", " ">>}

\* What the server may answer to each method
DeviceEntry(card, status) ==
    PyDict([smartcard |-> PyStr(card), chipid |-> PyStr(<<"c", "9">>), status |-> status])

FaultAnswers ==
    {Fault(PyInt(5), PyStr(sBadParam)), Fault(PyInt(2), PyStr(sNotAuthorized)),
     ProtocolError, OSError, OtherError,
     Response(PyDict([faultCode |-> PyInt(2)])),
     Response(PyDict([faultCode |-> PyInt(5), faultString |-> PyStr(sBadParam)]))}

Answers(method) ==
    FaultAnswers \cup
    CASE method = GetAuth ->
            {Response(PyStr(sT1)),
             Response(PyStr(<<"t", "o", "k", "e", "n", "=">> \o sT2 \o <<";">>)),
             Response(PyDict([result |-> PyDict([token |-> PyStr(sT1)])])),
             Response(PyNone)}
      [] method = SetVersion -> {Response(PyStr(sOK))}
      [] method = GetPvrDevices ->
            {Response(PyNone), Response(PyList(<<>>)),
             Response(PyList(<<DeviceEntry(<<"0", "0", "1">>, PyInt(1))>>)),
             Response(PyList(<<DeviceEntry(<<"0", "0", "1">>, PyInt(7))>>)),
             Response(PyList(<<DeviceEntry(<<"0", "0", "1">>, PyFloat("inf", 0))>>)),
             Response(PyList(<<DeviceEntry(<<"0", "0", "1">>, PyInt(0)),
                               DeviceEntry(<<"0", "0", "2">>, PyInt(1))>>)),
             Response(PyDict([devices |-> PyList(
                <<DeviceEntry(<<"0", "0", "1">>, PyInt(0)),
                  DeviceEntry(<<"0", "0", "2">>, PyStr(<<"2">>))>>)]))}
      [] method = SetStbCmd -> {Response(PyNone)}
      [] method = GetProducts ->
            {Response(PyNone), Response(PyStr(<<>>)), Response(PyStr(sObjectObject)),
             Response(PyStr(<<"j", "u", "n", "k">>)),
             Response(PyStr(<<"<object type=\"product\" id=\"5\">", "x", ObjectClose>>)),
             Response(PyDict([products |-> PyList(
                <<PyStr(<<"<object type=\"product\" id=\"7\">">>),
                  PyStr(<<ObjectClose>>)>>)]))}

\* _get_channels: the search space, product types outside, variants inside
product_types == <<"channel_dvb", "channel">>
variants == <<<<-1, -1, TRUE>>, <<-1, -1, FALSE>>, <<0, 1, FALSE>>>>
NCombos == Len(product_types) * Len(variants)
Combo_VariantMajor(i) ==
    <<product_types[((i - 1) % Len(product_types)) + 1]>>
        \o variants[((i - 1) \div Len(product_types)) + 1]

\* The i-th turn of `for product_type ...: for start, end, include ...`
Combo(i) ==
    <<product_types[((i - 1) \div Len(variants)) + 1]>>
        \o variants[((i - 1) % Len(variants)) + 1]

NoFrame ==
    [name |-> "none", smart_card |-> <<>>, key |-> <<>>, channel_arg |-> <<>>,
     channel |-> <<>>, sc |-> <<>>, cmd |-> <<>>]
NoResult == [err |-> "running", val |-> <<>>]

\* The state a step of caller p starts from, as a record the step rewrites
Keep(p) ==
    [pc |-> pc[p], op |-> op[p], tok |-> tok[p], res |-> last_res[p], retry |-> retry[p],
     digits |-> digits[p], ci |-> ci[p], result |-> result[p], log |-> log[p],
     reauth |-> reauth[p], token |-> token, me |-> p,
     holders |-> holders, faulted |-> faulted, cleared |-> cleared,
     getAuth |-> FALSE, authErr |-> FALSE, login |-> FALSE]

Min(a, b) == IF a < b THEN a ELSE b

Apply(p, frame) ==
    \E c \in {frame} :
        /\ pc' = [pc EXCEPT ![p] = c.pc]
        /\ op' = [op EXCEPT ![p] = c.op]
        /\ tok' = [tok EXCEPT ![p] = c.tok]
        /\ last_res' = [last_res EXCEPT ![p] = c.res]
        /\ retry' = [retry EXCEPT ![p] = c.retry]
        /\ digits' = [digits EXCEPT ![p] = c.digits]
        /\ ci' = [ci EXCEPT ![p] = c.ci]
        /\ result' = [result EXCEPT ![p] = c.result]
        /\ log' = [log EXCEPT ![p] = c.log]
        /\ reauth' = [reauth EXCEPT ![p] = c.reauth]
        /\ token' = c.token
        /\ nGetAuth' = IF c.getAuth THEN Min(nGetAuth + 1, MaxCount) ELSE nGetAuth
        /\ authErrSeen' = (authErrSeen \/ c.authErr)
        /\ loginTok' = IF c.login THEN c.token ELSE loginTok
        /\ cleanSince' = IF c.login THEN TRUE ELSE (cleanSince /\ ~c.authErr)
        /\ holders' = c.holders
        /\ faulted' = c.faulted
        /\ cleared' = c.cleared
        /\ UNCHANGED <<username, password, key_delay_s, serialized, callVars, parseVars>>

Raise_DropToken(c, e) ==
    [c EXCEPT !.pc = "done", !.result = [err |-> e, val |-> <<>>],
              !.token = PyNone,
              !.authErr = (@ \/ e = ToyaDecoderAuthError)]

\* An exception leaves the operation
Raise(c, e) ==
    [c EXCEPT !.pc = "done", !.result = [err |-> e, val |-> <<>>],
              !.authErr = (@ \/ e = ToyaDecoderAuthError)]

\* The operation returns v
Return(c, v) == [c EXCEPT !.pc = "done", !.result = [err |-> NoError, val |-> v]]

\* The operation begins: a new frame, a new history
Enter(p, name) ==
    [Keep(p) EXCEPT !.op = [NoFrame EXCEPT !.name = name], !.tok = PyNone, !.res = PyNone,
                    !.holders = @ \ {p},
                    !.retry = FALSE, !.digits = <<>>, !.ci = 1,
                    !.result = NoResult, !.log = <<>>, !.reauth = 0]

\* _login: the arguments of the two remote calls that are not the token
device_id == <<"h", "a", "-", "i", "d">>
version_model == <<"v", "-", "m">>

HoldToken_CacheEarly(c, t) == [c EXCEPT !.pc = "SetVersion", !.tok = t, !.token = t]

\* _login: token = extract_token(auth_res), a local until SetVersion is through
HoldToken(c, t) == [c EXCEPT !.pc = "SetVersion", !.tok = t]

\* _login: self._token = token; return token
CacheToken(c) ==
    [c EXCEPT !.token = c.tok, !.login = TRUE, !.pc = "call",
              !.holders = {c.me}, !.faulted = FALSE]

async_login_NoCache(c) == [c EXCEPT !.pc = "GetAuth"]

\* async_login: the cached token, or _login in a worker thread
async_login(c) ==
    IF Truthy(c.token)
    THEN [c EXCEPT !.pc = "call", !.tok = c.token, !.holders = @ \cup {c.me}]
    ELSE [c EXCEPT !.pc = "GetAuth"]

\* The remote call is made and its outcome recorded in the history
Called(c, method, params, tokSent, r) ==
    [c EXCEPT !.log = Append(@, [m |-> method, params |-> params, tok |-> tokSent,
                                 err |-> r.err, cached |-> c.token,
                                 clean |-> cleanSince, ltok |-> loginTok]),
              !.res = r.res,
              !.faulted = (@ \/ (/\ r.err = ToyaDecoderAuthError
                                 /\ tokSent # PyNone
                                 /\ c.me \in c.holders)),
              !.getAuth = (method = GetAuth),
              !.authErr = (@ \/ r.err = ToyaDecoderAuthError)]

ShouldRetry_Always(err, retrying) == err = ToyaDecoderAuthError

ShouldRetry_AnyApiError(err, retrying) == IsApiError(err) /\ ~retrying

\* `except ToyaDecoderAuthError` guards the first attempt only
ShouldRetry(err, retrying) == err = ToyaDecoderAuthError /\ ~retrying

AuthFaultHandler_KeepToken(c) ==
    async_login([c EXCEPT !.retry = TRUE, !.reauth = @ + 1, !.ci = 1])

AuthFaultHandler_Resume(c) ==
    async_login([c EXCEPT !.token = PyNone, !.retry = TRUE, !.reauth = @ + 1])

\* What `self._token = None` of caller c.me does away with: nothing, the
\* token its failed call carried or one that has failed since ("stale"), or
\* a token that another caller cached meanwhile and that no call has yet
\* failed with ("fresh")
Clears(c) ==
    IF ~Truthy(c.token) THEN "nothing"
    ELSE IF c.me \in c.holders \/ c.faulted THEN "stale"
    ELSE "fresh"

\* The except branch: self._token = None; token = await self.async_login();
\* then the call is made again from its beginning
AuthFaultHandler(c) ==
    async_login([c EXCEPT !.token = PyNone, !.retry = TRUE, !.reauth = @ + 1,
                          !.ci = 1, !.holders = {}, !.faulted = FALSE,
                          !.cleared = Clears(c)])

OnError_SkipApiError(c, err) ==
    IF ShouldRetry(err, c.retry) THEN AuthFaultHandler(c)
    ELSE IF err = ToyaDecoderApiError /\ c.op.name = "get_channels" /\ c.ci < NCombos
         THEN [c EXCEPT !.ci = @ + 1]
    ELSE Raise(c, err)

\* A failed call of the operation: handled once, else it leaves the operation
OnError(c, err) ==
    IF ShouldRetry(err, c.retry) THEN AuthFaultHandler(c) ELSE Raise(c, err)

\* async_send_key up to its first suspension
SendKeyEntry(c, smart_card, key) ==
    LET sc == Strip(smart_card)
        n == normalize_cmd(key)
        f == [c EXCEPT !.op.key = key]
    IN IF sc = <<>> THEN Raise(f, ToyaDecoderApiError)
       ELSE IF n.err # NoError THEN Raise(f, n.err)
       ELSE async_login([f EXCEPT !.op.sc = sc, !.op.cmd = n.cmd, !.retry = FALSE])

\* async_set_channel: the next turn of `for digit in digits`
NextDigit(c) ==
    IF c.digits = <<>> THEN Return(c, <<>>)
    ELSE SendKeyEntry([c EXCEPT !.digits = Tail(@)], c.op.smart_card, <<Head(c.digits)>>)

AfterKey_NoDelay(c) ==
    IF c.op.name = "send_key" THEN Return(c, <<>>) ELSE NextDigit(c)

\* async_send_key has returned
AfterKey(c) ==
    IF c.op.name = "send_key" THEN Return(c, <<>>)
    ELSE IF key_delay_s > 0 THEN [c EXCEPT !.pc = "sleep"]
    ELSE NextDigit(c)

Idle_Unguarded(p) == pc[p] = "idle"

\* Caller p may issue an operation
Idle(p) ==
    /\ pc[p] = "idle"
    /\ serialized => \A q \in Procs \ {p} : pc[q] = "idle"

async_get_devices(p) ==
    /\ Idle(p)
    /\ Apply(p, async_login(Enter(p, "get_devices")))

async_get_state(p) ==
    /\ Idle(p)
    /\ Apply(p, async_login(Enter(p, "get_state")))

async_get_channels(p) ==
    /\ Idle(p)
    /\ Apply(p, async_login(Enter(p, "get_channels")))

async_send_key(p) ==
    /\ Idle(p)
    /\ \E smart_card \in SmartCards, key \in Keys :
          Apply(p, SendKeyEntry([Enter(p, "send_key") EXCEPT !.op.smart_card = smart_card],
                                smart_card, key))

async_set_channel(p) ==
    /\ Idle(p)
    /\ \E smart_card \in SmartCards, channel \in Channels :
          LET ds == Strip(channel)
              c == [Enter(p, "set_channel") EXCEPT !.op.smart_card = smart_card,
                                                   !.op.channel_arg = channel]
          IN IF ~IsDigit(ds) THEN Apply(p, Raise(c, ToyaDecoderApiError))
             ELSE Apply(p, NextDigit([c EXCEPT !.digits = ds, !.op.channel = ds]))

\* asyncio.sleep(self._key_delay_s) is over
KeyDelay(p) ==
    /\ pc[p] = "sleep"
    /\ Apply(p, NextDigit(Keep(p)))

\* _login up to the answer of toyago.GetAuth
_login_GetAuth(p) ==
    /\ pc[p] = "GetAuth"
    /\ IF username = <<>> \/ password = <<>>
       THEN Apply(p, Raise(Keep(p), ToyaDecoderAuthError))
       ELSE \E raw \in Answers(GetAuth) :
              \E r \in {_call(GetAuth, raw)} :
                LET c == Called(Keep(p), GetAuth, <<device_id, username, password>>, PyNone, r)
                    t == extract_token(r.res)
                IN IF r.err # NoError THEN Apply(p, Raise(c, r.err))
                   ELSE IF t.err # NoError THEN Apply(p, Raise(c, t.err))
                   ELSE Apply(p, HoldToken(c, t.token))

\* _login from toyago.SetVersion on: the token is cached and returned
_login_SetVersion(p) ==
    /\ pc[p] = "SetVersion"
    /\ \E raw \in Answers(SetVersion) :
          \E r \in {_call(SetVersion, raw)} :
            LET c == Called(Keep(p), SetVersion, <<device_id, version_model>>, tok[p], r)
            IN IF r.err # NoError THEN Apply(p, Raise(c, r.err))
               ELSE Apply(p, CacheToken(c))

\* async_get_state: any(device.status == DeviceStatus.ON for device in devices)
AnyOn_NotOff(devices) == \E i \in 1..Len(devices) : devices[i].status # "OFF"

AnyOn(devices) == \E i \in 1..Len(devices) : devices[i].status = "ON"

\* _get_pvr_devices, and what async_get_devices / async_get_state do with it
_get_pvr_devices(p) ==
    /\ pc[p] = "call"
    /\ op[p].name \in {"get_devices", "get_state"}
    /\ \E raw \in Answers(GetPvrDevices) :
          \E r \in {_call(GetPvrDevices, raw)} :
            LET c == Called(Keep(p), GetPvrDevices, <<>>, tok[p], r)
                parsed == parse_devices(r.res)
                devices == parsed.v
                is_on == AnyOn(devices)
            IN IF r.err # NoError THEN Apply(p, OnError(c, r.err))
               ELSE IF parsed.err # NoError THEN Apply(p, Raise(c, parsed.err))
               ELSE IF op[p].name = "get_state" THEN Apply(p, Return(c, [is_on |-> is_on]))
               ELSE Apply(p, Return(c, devices))

_send_key_SkipFailed(p) ==
    /\ pc[p] = "call"
    /\ op[p].name \in {"send_key", "set_channel"}
    /\ \E raw \in Answers(SetStbCmd) :
          \E r \in {_call(SetStbCmd, raw)} :
            LET c == Called(Keep(p), SetStbCmd, <<op[p].sc, op[p].cmd>>, tok[p], r)
            IN IF r.err # NoError /\ ShouldRetry(r.err, c.retry)
               THEN Apply(p, OnError(c, r.err))
               ELSE IF r.err # NoError /\ op[p].name = "send_key"
               THEN Apply(p, Raise(c, r.err))
               ELSE Apply(p, AfterKey(c))

\* _send_key, and what async_send_key / async_set_channel do after it
_send_key(p) ==
    /\ pc[p] = "call"
    /\ op[p].name \in {"send_key", "set_channel"}
    /\ \E raw \in Answers(SetStbCmd) :
          \E r \in {_call(SetStbCmd, raw)} :
            LET c == Called(Keep(p), SetStbCmd, <<op[p].sc, op[p].cmd>>, tok[p], r)
            IN IF r.err # NoError THEN Apply(p, OnError(c, r.err))
               ELSE Apply(p, AfterKey(c))

AfterProducts_ReturnParsed(c, body) ==
    LET xml == extract_products_xml(body)
        next == IF c.ci < NCombos THEN [c EXCEPT !.ci = @ + 1]
                ELSE Raise(c, ToyaDecoderApiError)
    IN IF xml = <<>> \/ xml = sObjectObject THEN next
       ELSE Return(c, parse_channels(xml))

\* _get_channels: what the loop body does with the answer of GetProducts
AfterProducts(c, body) ==
    LET xml == extract_products_xml(body)
        parsed == parse_channels(xml)
        next == IF c.ci < NCombos THEN [c EXCEPT !.ci = @ + 1]
                ELSE Raise(c, ToyaDecoderApiError)
    IN IF xml = <<>> \/ xml = sObjectObject THEN next
       ELSE IF parsed # <<>> THEN Return(c, parsed)
       ELSE next

\* One turn of the loops of _get_channels: one toyago.GetProducts call
_get_channels(p) ==
    /\ pc[p] = "call"
    /\ op[p].name = "get_channels"
    /\ \E raw \in Answers(GetProducts) :
          \E r \in {_call(GetProducts, raw)} :
            LET c == Called(Keep(p), GetProducts, Combo(ci[p]), tok[p], r)
            IN IF r.err # NoError THEN Apply(p, OnError(c, r.err))
               ELSE Apply(p, AfterProducts(c, r.res))

\* The caller has the result (or the exception) of its operation
Finish(p) ==
    /\ pc[p] = "done"
    /\ Apply(p, [Enter(p, "none") EXCEPT !.pc = "idle"])

Credentials == {<<<<"u">>, <<"p">>>>, <<<<>>, <<"p">>>>, <<<<"u">>, <<>>>>}

ClientInit ==
    /\ \E cr \in Credentials : username = cr[1] /\ password = cr[2]
    /\ key_delay_s \in {0, 1}
    /\ token = PyNone
    /\ pc = [p \in Procs |-> "idle"]
    /\ op = [p \in Procs |-> NoFrame]
    /\ tok = [p \in Procs |-> PyNone]
    /\ last_res = [p \in Procs |-> PyNone]
    /\ retry = [p \in Procs |-> FALSE]
    /\ digits = [p \in Procs |-> <<>>]
    /\ ci = [p \in Procs |-> 1]
    /\ result = [p \in Procs |-> NoResult]
    /\ log = [p \in Procs |-> <<>>]
    /\ reauth = [p \in Procs |-> 0]
    /\ nGetAuth = 0
    /\ authErrSeen = FALSE
    /\ loginTok = PyNone
    /\ cleanSince = FALSE
    /\ holders = {}
    /\ faulted = FALSE
    /\ cleared = "nothing"

CallIdle ==
    /\ cMethod = "none"
    /\ cGen = "none"
    /\ cRaw = "none"
    /\ cOut = Pending

\* parse_devices not called yet
Unparsed == [done |-> FALSE, err |-> NoError, devices |-> <<>>]

ParseIdle ==
    /\ dGen = "none"
    /\ dRes = "none"
    /\ dOut = Unparsed

\* Operations issued one at a time, as section 5 of the design asks of callers
Init == ClientInit /\ serialized = TRUE /\ CallIdle /\ ParseIdle

Next ==
    \E p \in Procs :
        \/ async_get_devices(p)
        \/ async_get_state(p)
        \/ async_get_channels(p)
        \/ async_send_key(p)
        \/ async_set_channel(p)
        \/ _login_GetAuth(p)
        \/ _login_SetVersion(p)
        \/ _get_pvr_devices(p)
        \/ _send_key(p)
        \/ _get_channels(p)
        \/ KeyDelay(p)
        \/ Finish(p)

Spec == Init /\ [][Next]_vars

\* Overlapping operations: a poll (get_devices) and a command (send_key)
\* may be in flight together when the callers do not serialize.  The
\* overlapped runs are followed as far as the calls succeed or fail with
\* AuthError, which is what the race on the token takes.
Overlapped ==
    /\ op["poll"].name \in {"none", "get_devices"}
    /\ op["cmd"].name \in {"none", "send_key"}
    /\ op["cmd"].name = "send_key" =>
          op["cmd"].smart_card = <<"0", "0", "1">> /\ op["cmd"].key = <<"5">>
    /\ \A p \in Procs :
          /\ result[p].err \in {NoResult.err, NoError, ToyaDecoderAuthError}
          /\ \A i \in 1..Len(log[p]) : log[p][i].err \in {NoError, ToyaDecoderAuthError}
          /\ last_res[p] \in {PyNone, PyStr(sT1), PyStr(sOK), PyList(<<>>)}
          /\ Len(log[p]) <= 4

InitOverlap ==
    /\ ClientInit
    /\ serialized \in BOOLEAN
    /\ ~serialized => (username = <<"u">> /\ password = <<"p">> /\ key_delay_s = 0)
    /\ CallIdle
    /\ ParseIdle

\* The runs followed: every serialized run, and the overlapped window
Followed == serialized \/ Overlapped

NextOverlap ==
    \E p \in Procs :
        \/ async_get_devices(p) /\ Followed'
        \/ async_get_state(p) /\ Followed'
        \/ async_get_channels(p) /\ Followed'
        \/ async_send_key(p) /\ Followed'
        \/ async_set_channel(p) /\ Followed'
        \/ _login_GetAuth(p) /\ Followed'
        \/ _login_SetVersion(p) /\ Followed'
        \/ _get_pvr_devices(p) /\ Followed'
        \/ _send_key(p) /\ Followed'
        \/ _get_channels(p) /\ Followed'
        \/ KeyDelay(p) /\ Followed'
        \/ Finish(p) /\ Followed'

SpecOverlap == InitOverlap /\ [][NextOverlap]_vars

-----------------------------------------------------------------------------
(* SpecCall: _call applied once to every answer of Gens, for every method *)

InitCall ==
    /\ ClientInit
    /\ username = <<"u">>
    /\ password = <<"p">>
    /\ key_delay_s = 0
    /\ serialized = TRUE
    /\ cMethod \in Methods
    /\ cGen \in Gens
    /\ cRaw = BuildRaw(cGen)
    /\ cOut = Pending
    /\ ParseIdle

CallStep ==
    /\ cOut = Pending
    /\ cOut' = _call(cMethod, cRaw)
    /\ UNCHANGED <<clientVars, cMethod, cGen, cRaw, parseVars>>

NextCall == CallStep

SpecCall == InitCall /\ [][NextCall]_vars

\* ---- parse_devices on keyed device lists --------------------------------
\* A key an entry does not carry
Absent == [t |-> "absent", v |-> <<>>]

EntryField(k, value) == IF value = Absent THEN [x \in {} |-> PyNone] ELSE (k :> value)

KeyedEntry(smartcard, chipid, status) ==
    PyDict(EntryField("smartcard", smartcard) @@ EntryField("chipid", chipid)
           @@ EntryField("status", status))

\* The values the entry under test may carry
SmartcardValues == {Absent, PyNone, PyStr(<<>>), PyStr(<<"0", "0", "1">>), PyStr(<<" ">>)}
ChipidValues == {Absent, PyNone, PyStr(<<>>), PyStr(<<"c", "9">>), PyInt(0)}
StatusValues ==
    {Absent, PyNone, PyInt(0), PyInt(1), PyInt(2), PyInt(7), PyInt(-1),
     PyStr(<<"1">>), PyStr(<<" ", "2", " ">>), PyStr(<<"x">>), PyStr(<<>>),
     PyFloat("", 15), PyFloat("nan", 0), PyFloat("inf", 0)}

\* The entries around it: one that yields a device and one that yields none
Fillers ==
    [kept |-> KeyedEntry(PyStr(<<"0", "0", "2">>), PyStr(<<"c", "1">>), PyInt(1)),
     dropped |-> KeyedEntry(Absent, PyStr(<<"c", "1">>), PyInt(1))]

MaxEntries == 2

\* An empty list, or a list of fillers with the entry under test at `pos`
DeviceGens ==
    {[n |-> 0, pos |-> 0, fill |-> <<>>, smartcard |-> Absent, chipid |-> Absent,
      status |-> Absent, wrap |-> w] : w \in BOOLEAN}
    \cup UNION {[n : {k}, pos : 1..k, fill : [1..k -> DOMAIN Fillers],
                 smartcard : SmartcardValues, chipid : ChipidValues,
                 status : StatusValues, wrap : BOOLEAN] : k \in 1..MaxEntries}

BuildDevices(g) ==
    LET entries == [i \in 1..g.n |->
                       IF i = g.pos THEN KeyedEntry(g.smartcard, g.chipid, g.status)
                       ELSE Fillers[g.fill[i]]]
    IN IF g.wrap THEN PyDict([devices |-> PyList(entries)]) ELSE PyList(entries)

InitDevices ==
    /\ ClientInit
    /\ username = <<"u">>
    /\ password = <<"p">>
    /\ key_delay_s = 0
    /\ serialized = TRUE
    /\ CallIdle
    /\ dGen \in DeviceGens
    /\ dRes = BuildDevices(dGen)
    /\ dOut = Unparsed

ParseStep ==
    /\ ~dOut.done
    /\ \E r \in {parse_devices(dRes)} :
          dOut' = [done |-> TRUE, err |-> r.err, devices |-> r.v]
    /\ UNCHANGED <<clientVars, callVars, dGen, dRes>>

NextDevices == ParseStep

SpecDevices == InitDevices /\ [][NextDevices]_vars

\* ---- parse_devices on legacy device blobs --------------------------------
\* A blob is the text of records of key=value pairs, e.g.
\*   [{smartcard=001, chipid=c1, status=1}, {smartcard=002, chipid=c2, status=0}]
kSmartcard == <<"s", "m", "a", "r", "t", "c", "a", "r", "d">>
kChipid == <<"c", "h", "i", "p", "i", "d">>
kStatus == <<"s", "t", "a", "t", "u", "s">>

\* The keys a record carries, in the order it carries them
RecordShapes ==
    [full |-> <<"smartcard", "chipid", "status">>,
     statusFirst |-> <<"status", "chipid", "smartcard">>,
     noStatus |-> <<"smartcard", "chipid">>,
     noChip |-> <<"smartcard", "status">>,
     noCard |-> <<"chipid", "status">>]

LegacyStatuses == {<<"0">>, <<"1">>, <<"7">>, <<"x">>}

RecordGens ==
    {[shape |-> "noStatus", status |-> <<"0">>]}
    \cup [shape : DOMAIN RecordShapes \ {"noStatus"}, status : LegacyStatuses]

\* How the records are wrapped: "[{..}, {..}]", "{..}{..}" or "{.., ..}"
LegacyWraps == {"list", "braces", "bare"}

LegacyGens ==
    UNION {[recs : [1..k -> RecordGens], wrap : LegacyWraps] : k \in 1..MaxEntries}

\* The value record i of the input gives key k
FieldValue(g, i, k) ==
    CASE k = "smartcard" -> <<"0", "0", DigitChar[i + 1]>>
      [] k = "chipid" -> <<"c", DigitChar[i + 1]>>
      [] k = "status" -> g.recs[i].status

KeyText(k) ==
    CASE k = "smartcard" -> kSmartcard [] k = "chipid" -> kChipid [] k = "status" -> kStatus

RecordText(g, i) ==
    LET ks == RecordShapes[g.recs[i].shape]
    IN JoinSeq([j \in 1..Len(ks) |-> KeyText(ks[j]) \o <<"=">> \o FieldValue(g, i, ks[j])],
               <<",", " ">>)

BuildBlob(g) ==
    LET n == Len(g.recs)
        braced == [i \in 1..n |-> <<"{">> \o RecordText(g, i) \o <<"}">>]
    IN CASE g.wrap = "list" -> <<"[">> \o JoinSeq(braced, <<",", " ">>) \o <<"]">>
         [] g.wrap = "braces" -> JoinSeq(braced, <<>>)
         [] g.wrap = "bare" ->
               <<"{">> \o JoinSeq([i \in 1..n |-> RecordText(g, i)], <<",", " ">>) \o <<"}">>

\* The same records as a list of keyed entries
BuildKeyed(g) ==
    LET has(i, k) == \E j \in 1..Len(RecordShapes[g.recs[i].shape]) :
                        RecordShapes[g.recs[i].shape][j] = k
        field(i, k) == IF has(i, k) THEN PyStr(FieldValue(g, i, k)) ELSE Absent
    IN PyList([i \in 1..Len(g.recs) |->
                  KeyedEntry(field(i, "smartcard"), field(i, "chipid"), field(i, "status"))])

InitLegacy ==
    /\ ClientInit
    /\ username = <<"u">>
    /\ password = <<"p">>
    /\ key_delay_s = 0
    /\ serialized = TRUE
    /\ CallIdle
    /\ dGen \in LegacyGens
    /\ dRes = [blob |-> PyStr(BuildBlob(dGen)), keyed |-> BuildKeyed(dGen)]
    /\ dOut = Unparsed

\* parse_devices applied to the blob and to its keyed form
LegacyStep ==
    /\ ~dOut.done
    /\ \E r \in {parse_devices(dRes.blob)} : \E k \in {parse_devices(dRes.keyed)} :
          dOut' = [done |-> TRUE, err |-> r.err, devices |-> r.v, keyed |-> k.v]
    /\ UNCHANGED <<clientVars, callVars, dGen, dRes>>

NextLegacy == LegacyStep

SpecLegacy == InitLegacy /\ [][NextLegacy]_vars

\* ---- parse_channels on product lists --------------------------------------
\* An attr that is there but holds no <value> element
NoValue == [t |-> "novalue", v |-> <<>>]

AttrTag ==
    [name |-> "<attr key=\"name\">", shortTitle |-> "<attr key=\"shortTitle\">",
     number |-> "<attr key=\"number\">", channel_number |-> "<attr key=\"channel_number\">",
     lcn |-> "<attr key=\"lcn\">", position |-> "<attr key=\"position\">"]

AttrOrder == <<"name", "shortTitle", "number", "channel_number", "lcn", "position">>

\* The product under test: what each of its attrs holds
ProductGens ==
    [layout : {"alone", "after", "before"},
     name : {Absent, NoValue, PyStr(<<>>), PyStr(<<"T", "V", "P">>),
             PyStr(<<" ", "N", "&amp;", "W", " ">>)},
     shortTitle : {Absent, PyStr(<<"S", "T">>)},
     number : {Absent, NoValue, PyStr(<<>>), PyStr(<<"1", "2">>), PyStr(<<"x">>),
               PyStr(<<" ", "7", " ">>)},
     channel_number : {Absent, PyStr(<<"3">>)},
     lcn : {Absent, PyStr(<<"4">>)},
     position : {Absent, PyStr(<<"x", "9">>)}]

AttrXml(key, value) ==
    IF value = Absent THEN <<>>
    ELSE IF value = NoValue THEN <<AttrTag[key], AttrClose>>
    ELSE <<AttrTag[key], ValueOpen>> \o value.v \o <<ValueClose, AttrClose>>

\* A second product, with a name only, and text outside the products
FillerXml ==
    <<"\n", "<object type=\"product\" id=\"7\">">> \o AttrXml("name", PyStr(<<"F">>))
        \o <<ObjectClose, "j">>

BuildXml(g) ==
    LET product == <<"<object type=\"product\" id=\"5\">">>
                   \o JoinSeq([i \in 1..Len(AttrOrder) |->
                                  AttrXml(AttrOrder[i], g[AttrOrder[i]])], <<>>)
                   \o <<ObjectClose>>
    IN CASE g.layout = "alone" -> product
         [] g.layout = "after" -> FillerXml \o product
         [] g.layout = "before" -> product \o FillerXml

InitChannels ==
    /\ ClientInit
    /\ username = <<"u">>
    /\ password = <<"p">>
    /\ key_delay_s = 0
    /\ serialized = TRUE
    /\ CallIdle
    /\ dGen \in ProductGens
    /\ dRes = PyStr(BuildXml(dGen))
    /\ dOut = Unparsed

ChannelsStep ==
    /\ ~dOut.done
    /\ \E r \in {parse_channels(dRes.v)} :
          dOut' = [done |-> TRUE, err |-> NoError, channels |-> r]
    /\ UNCHANGED <<clientVars, callVars, dGen, dRes>>

NextChannels == ChannelsStep

SpecChannels == InitChannels /\ [][NextChannels]_vars

\* ---- parse_devices on both kinds of answer --------------------------------
InitPaths ==
    /\ ClientInit
    /\ username = <<"u">>
    /\ password = <<"p">>
    /\ key_delay_s = 0
    /\ serialized = TRUE
    /\ CallIdle
    /\ \/ \E g \in DeviceGens :
             dGen = [path |-> "keyed", g |-> g] /\ dRes = BuildDevices(g)
       \/ \E g \in LegacyGens :
             dGen = [path |-> "legacy", g |-> g] /\ dRes = PyStr(BuildBlob(g))
    /\ dOut = Unparsed

SpecPaths == InitPaths /\ [][NextDevices]_vars

\* ---- _normalize_token on raw strings --------------------------------------
MaxTokenLen == 4

TokenChars == {"A", "=", ";", "\"", " "}

sTokenEqABC == <<"t", "o", "k", "e", "n", "=", "A", "B", "C", "1", "2", "3", ";">>
sQuotedABC == <<"\"", "A", "B", "C", "1", "2", "3", "\"">>

RawTokens ==
    UNION {[1..k -> TokenChars] : k \in 0..MaxTokenLen} \cup {sTokenEqABC, sQuotedABC}

InitToken ==
    /\ ClientInit
    /\ username = <<"u">>
    /\ password = <<"p">>
    /\ key_delay_s = 0
    /\ serialized = TRUE
    /\ CallIdle
    /\ dGen = "raw"
    /\ dRes \in RawTokens
    /\ dOut = Unparsed

\* _normalize_token(raw), and _normalize_token of what it returned
NormalizeStep ==
    /\ ~dOut.done
    /\ \E once \in {_normalize_token(dRes)} :
          dOut' = [done |-> TRUE, err |-> NoError, once |-> once,
                   twice |-> _normalize_token(once)]
    /\ UNCHANGED <<clientVars, callVars, dGen, dRes>>

NextToken == NormalizeStep

SpecToken == InitToken /\ [][NextToken]_vars

\* ---- the parsers on malformed answers -------------------------------------
InfStatusEntry ==
    KeyedEntry(PyStr(<<"0", "0", "1">>), PyStr(<<"c", "9">>), PyFloat("inf", 0))

ShapeValues ==
    {PyNone, PyInt(0), PyInt(5), PyFloat("nan", 0),
     PyStr(<<>>), PyStr(<<"j", "u", "n", "k">>),
     PyStr(<<"{">> \o kSmartcard \o <<"=", "0", "0", "1", ",", " ">> \o kStatus),
     PyStr(<<"<object type=\"product\" id=\"5\">", "<attr key=\"number\">", ValueOpen, "x">>),
     PyBytes(<<>>), PyBytes(<<"a", Undecodable>>),
     PyList(<<>>), PyList(<<PyInt(1), PyNone>>),
     PyList(<<KeyedEntry(PyInt(5), PyList(<<>>), EmptyDict)>>),
     PyList(<<KeyedEntry(PyStr(<<"0", "0", "1">>), PyStr(<<"c", "9">>), PyNone)>>),
     PyList(<<InfStatusEntry>>),
     EmptyDict,
     KeyedEntry(PyStr(<<"0", "0", "1">>), Absent, PyBytes(<<"1">>))}

ShapeGens == [wrap : {"bare", "devices", "products", "list"}, inner : ShapeValues]

BuildShape(g) ==
    CASE g.wrap = "bare" -> g.inner
      [] g.wrap = "devices" -> PyDict([devices |-> g.inner])
      [] g.wrap = "products" -> PyDict([products |-> g.inner])
      [] g.wrap = "list" -> PyList(<<g.inner>>)

InitShapes ==
    /\ ClientInit
    /\ username = <<"u">>
    /\ password = <<"p">>
    /\ key_delay_s = 0
    /\ serialized = TRUE
    /\ CallIdle
    /\ dGen \in ShapeGens
    /\ dRes = BuildShape(dGen)
    /\ dOut = Unparsed

\* parse_devices(res)
ShapeDevices ==
    /\ ~dOut.done
    /\ \E r \in {parse_devices(dRes)} :
          dOut' = [done |-> TRUE, fn |-> "parse_devices", err |-> r.err, out |-> r.v]
    /\ UNCHANGED <<clientVars, callVars, dGen, dRes>>

\* extract_products_xml(res), then parse_channels on its text as _get_channels does
ShapeProducts ==
    /\ ~dOut.done
    /\ \E xml \in {extract_products_xml(dRes)} :
          dOut' = [done |-> TRUE, fn |-> "extract_products_xml", err |-> NoError,
                   out |-> <<xml, parse_channels(xml)>>]
    /\ UNCHANGED <<clientVars, callVars, dGen, dRes>>

\* parse_channels(res): pattern.finditer raises TypeError on what is not a str
ShapeChannels ==
    /\ ~dOut.done
    /\ dOut' = IF dRes.t = "str"
               THEN [done |-> TRUE, fn |-> "parse_channels", err |-> NoError,
                     out |-> parse_channels(dRes.v)]
               ELSE [done |-> TRUE, fn |-> "parse_channels", err |-> "TypeError",
                     out |-> <<>>]
    /\ UNCHANGED <<clientVars, callVars, dGen, dRes>>

NextShapes == ShapeDevices \/ ShapeProducts \/ ShapeChannels

SpecShapes == InitShapes /\ [][NextShapes]_vars

(***************************************************************************)
(* Properties of the fault classifier, checked under SpecCall              *)
(***************************************************************************)

\* What the generator put into the fault, read off its parameters
AuthText(g) == g.text.has /\ g.text.core \in AuthCores
AuthCode(g) == g.code \in {PyInt(2), PyStr(<<"2">>)}
NoFault(g) == g.form = "plain" \/ (g.form = "body" /\ g.code = PyNone /\ ~g.text.has)

\* C7: a fault inside the response body, under any of the key variants and
\* at any nesting depth, is an AuthError when its message contains
\* "not author" or "unauthor" in any letter case or its code is 2 or "2";
\* a body with neither a code nor a message is never an auth fault and is
\* returned as it is.
C7_InBandAuthFault ==
    cOut # Pending =>
        /\ (cGen.form = "body" /\ (AuthText(cGen) \/ AuthCode(cGen)))
              => cOut = Raised(ToyaDecoderAuthError)
        /\ NoFault(cGen) => cOut = Returned(cRaw.body)

C7_Witness ==
    /\ cOut = Raised(ToyaDecoderAuthError)
    /\ cGen.form = "body"
    /\ cGen.depth = MaxNest
    /\ cGen.lead = "dict"
    /\ cGen.tk = "message"
    /\ cGen.code = PyNone
    /\ cGen.text.core = <<"N", "O", "T", " ", "A", "U", "T", "H", "O", "R">>

\* C8: a fault inside the response body that is not an auth fault (such as
\* {faultCode: 5, faultString: "bad param"}) makes the call fail with
\* ToyaDecoderApiError and not with ToyaDecoderAuthError; the body is not
\* returned as a result.
C8_InBandApiFault ==
    (/\ cOut # Pending
     /\ cGen.form = "body"
     /\ cGen.code \in {PyInt(5), PyInt(22), PyStr(<<"5">>)}
     /\ ~AuthText(cGen))
        => cOut = Raised(ToyaDecoderApiError)

\* C9: an exception of the remote call is classified by _call: a Fault is
\* an AuthError when the method is toyago.GetAuth or its message matches
\* the auth substrings and a plain ApiError otherwise; a ProtocolError or
\* an OSError is a ConnectionError; an AuthError raised inside the try
\* block by the in-band check leaves _call as an AuthError.
C9_ExceptionClassification ==
    cOut # Pending =>
        /\ cGen.form = "Fault" =>
              cOut = Raised(IF cMethod = GetAuth \/ AuthText(cGen)
                            THEN ToyaDecoderAuthError ELSE ToyaDecoderApiError)
        /\ cGen.form \in {"ProtocolError", "OSError"} =>
              cOut = Raised(ToyaDecoderConnectionError)
        /\ TryBlock(cRaw) = ToyaDecoderAuthError =>
              cOut = Raised(ToyaDecoderAuthError)

C9_Witness ==
    /\ cOut = Raised(ToyaDecoderAuthError)
    /\ cGen.form = "Fault"
    /\ cMethod = GetAuth
    /\ cGen.code = PyInt(5)
    /\ cGen.text.core = <<"b", "a", "d", " ", "p", "a", "r", "a", "m">>

\* C10: for a method other than the login method a fault with code 2 is an
\* AuthError in both forms, as a Fault exception and as a fault inside the
\* response body.
C10_Code2BothForms ==
    (/\ cOut # Pending
     /\ cMethod # GetAuth
     /\ cGen.form \in {"body", "Fault"}
     /\ AuthCode(cGen))
        => cOut = Raised(ToyaDecoderAuthError)

(***************************************************************************)
(* Properties of the client's operations, checked under Spec               *)
(***************************************************************************)

LoginMethods == {GetAuth, SetVersion}

\* The remote method an operation exists to call
MainMethod(name) ==
    CASE name \in {"get_devices", "get_state"} -> GetPvrDevices
      [] name \in {"send_key", "set_channel"} -> SetStbCmd
      [] name = "get_channels" -> GetProducts
      [] OTHER -> "none"

MainCalls(p) == {i \in 1..Len(log[p]) : log[p][i].m = MainMethod(op[p].name)}
After(p, i) == SubSeq(log[p], i + 1, Len(log[p]))
MethodsOf(l) == [i \in 1..Len(l) |-> l[i].m]
IsPrefix(s, t) == Len(s) <= Len(t) /\ \A i \in 1..Len(s) : s[i] = t[i]

\* C1: in send_key and get_devices an AuthError of the first call clears
\* the token, is followed by exactly one re-login (GetAuth on an empty
\* cache, then SetVersion) and by exactly one more call, with the same
\* parameters and the new token; whatever that second call raises leaves
\* the operation, and there is never a third call.
C1_RetryOnce ==
    \A p \in Procs :
        op[p].name \in {"send_key", "get_devices"} =>
            LET l == log[p]
                mains == MainCalls(p)
            IN /\ Cardinality(mains) <= 2
               /\ \A i \in mains :
                    (\A j \in mains : i <= j) =>
                        LET rest == After(p, i)
                        IN IF l[i].err = ToyaDecoderAuthError
                           THEN /\ IsPrefix(MethodsOf(rest), <<GetAuth, SetVersion, l[i].m>>)
                                /\ (rest = <<>>) <=> (pc[p] = "GetAuth")
                                /\ rest = <<>> => token = PyNone
                                /\ Len(rest) >= 1 => rest[1].cached = PyNone
                                /\ Len(rest) = 1 => pc[p] \in {"SetVersion", "done"}
                                /\ Len(rest) = 2 =>
                                      /\ (rest[2].err = NoError) <=> (pc[p] = "call")
                                      /\ (rest[2].err # NoError) <=> (pc[p] = "done")
                                /\ Len(rest) = 3 =>
                                      /\ rest[3].params = l[i].params
                                      /\ Truthy(rest[3].tok)
                                      /\ rest[3].tok = rest[2].tok
                                      /\ rest[3].tok = rest[3].cached
                                      /\ pc[p] = "done"
                                      /\ rest[3].err # NoError => result[p].err = rest[3].err
                                      /\ rest[3].err = NoError =>
                                            result[p].err \in {NoError, "OverflowError"}
                           ELSE rest = <<>> /\ pc[p] = "done"

C1_Witness ==
    \E p \in Procs :
        /\ op[p].name = "send_key"
        /\ pc[p] = "done"
        /\ MethodsOf(log[p]) = <<SetStbCmd, GetAuth, SetVersion, SetStbCmd>>
        /\ log[p][1].err = ToyaDecoderAuthError
        /\ log[p][4].err = ToyaDecoderAuthError
        /\ result[p].err = ToyaDecoderAuthError

\* C2 as stated: no operation, set_channel included, re-authenticates more
\* than once.
C2_OneReauthPerOperation == \A p \in Procs : reauth[p] <= 1

\* C2 amended: get_devices, get_channels, get_state and send_key
\* re-authenticate at most once; set_channel re-authenticates at most once
\* for each key press it has begun, and a key press whose retried call
\* fails with AuthError again ends the operation with that error.
C2_OneReauthPerKeyPress ==
    \A p \in Procs :
        LET l == log[p]
            mains == MainCalls(p)
        IN /\ IF op[p].name = "set_channel"
              THEN reauth[p] <= Len(op[p].channel) - Len(digits[p])
              ELSE reauth[p] <= 1
           /\ \A i, j \in mains :
                (/\ i < j
                 /\ \A k \in mains : ~(i < k /\ k < j)
                 /\ l[i].err = ToyaDecoderAuthError
                 /\ l[j].err = ToyaDecoderAuthError)
                    => /\ j = Len(l)
                       /\ pc[p] = "done"
                       /\ result[p].err = ToyaDecoderAuthError

C2_Witness ==
    \E p \in Procs :
        /\ op[p].name = "set_channel"
        /\ pc[p] = "done"
        /\ reauth[p] = 2
        /\ result[p].err = NoError

\* C3: once an operation has ended, a token whose call failed with
\* AuthError during it (and that no later login of the operation obtained
\* again) is not the cached token.
C3_FaultedTokenDropped ==
    \A p \in Procs :
        pc[p] = "done" =>
            \A i \in 1..Len(log[p]) :
                (/\ log[p][i].err = ToyaDecoderAuthError
                 /\ log[p][i].tok # PyNone
                 /\ \A k \in (i + 1)..Len(log[p]) :
                        ~(log[p][k].m = SetVersion /\ log[p][k].err = NoError))
                    => token # log[p][i].tok

\* C4 as stated: over any sequence of operations none of which met an
\* AuthError, GetAuth is called at most once.
C4_OneGetAuthWithoutAuthError == ~authErrSeen => nGetAuth <= 1

\* C4 amended: login makes no remote call while a token is cached; from a
\* completed login on, as long as nothing fails with AuthError, the token
\* of that login stays cached, no GetAuth or SetVersion is called, and
\* every remote call carries that token.
C4_CachedLogin ==
    /\ cleanSince => (Truthy(token) /\ token = loginTok)
    /\ \A p \in Procs : \A i \in 1..Len(log[p]) :
          LET e == log[p][i]
          IN /\ Truthy(e.cached) => e.m \notin LoginMethods
             /\ e.clean => /\ e.m \notin LoginMethods
                           /\ e.tok = e.ltok
                           /\ e.cached = e.ltok

C4_Witness ==
    \E p \in Procs :
        /\ pc[p] = "done"
        /\ MethodsOf(log[p]) = <<SetStbCmd, SetStbCmd>>
        /\ log[p][1].clean
        /\ log[p][2].clean
        /\ cleanSince

\* C5: a remote call that fails with ConnectionError or with a plain
\* ApiError is the last call of its operation, the operation ends with
\* that error, and the cached token is what it was when the call was made.
C5_FailFast ==
    \A p \in Procs : \A i \in 1..Len(log[p]) :
        log[p][i].err \in {ToyaDecoderConnectionError, ToyaDecoderApiError} =>
            /\ i = Len(log[p])
            /\ pc[p] = "done"
            /\ result[p].err = log[p][i].err
            /\ token = log[p][i].cached

C5_Witness ==
    \E p \in Procs :
        /\ op[p].name = "get_channels"
        /\ pc[p] = "done"
        /\ Len(log[p]) >= 2
        /\ log[p][Len(log[p])].m = GetProducts
        /\ log[p][Len(log[p])].err = ToyaDecoderConnectionError
        /\ Truthy(token)

\* C6 as stated: after an AuthError no call of the operation that had
\* succeeded before the fault is issued again (the calls of the re-login
\* apart).
C6_OnlyFailedCallReissued ==
    \A p \in Procs :
        op[p].name \in {"get_devices", "get_state", "send_key", "get_channels"} =>
            ~ \E i, j, k \in 1..Len(log[p]) :
                /\ i < j /\ j < k
                /\ log[p][i].m \notin LoginMethods
                /\ log[p][i].err = NoError
                /\ log[p][j].err = ToyaDecoderAuthError
                /\ log[p][k].m = log[p][i].m
                /\ log[p][k].params = log[p][i].params

\* How many of the indices in S are at most k
Rank(S, k) == Cardinality({x \in S : x <= k})

\* C6 amended: after an AuthError get_devices, get_state and send_key issue
\* the failed call once more and nothing else; get_channels starts its
\* search again at the first combination; set_channel repeats the failed
\* key press only, the presses that succeeded being the digits in order.
C6_RetryRestartsCall ==
    \A p \in Procs :
        LET l == log[p]
            mains == MainCalls(p)
            faults == {j \in mains : l[j].err = ToyaDecoderAuthError}
            passed == {k \in mains : l[k].err = NoError}
        IN /\ \A j \in faults :
                LET later == {k \in mains : k > j}
                IN CASE op[p].name \in {"get_devices", "get_state", "send_key"} ->
                          /\ Cardinality(later) <= 1
                          /\ \A k \in later : l[k].params = l[j].params
                     [] op[p].name = "get_channels" ->
                          \A k \in later :
                              (\A f \in faults : j <= f \/ k < f) =>
                                  l[k].params = Combo(Rank(later, k))
                     [] op[p].name = "set_channel" ->
                          \A k \in later :
                              Rank(later, k) = 1 => l[k].params = l[j].params
                     [] OTHER -> TRUE
           /\ op[p].name = "set_channel" =>
                \A k \in passed :
                    l[k].params = <<op[p].sc, <<op[p].channel[Rank(passed, k)]>>>>

C6_Witness ==
    \E p \in Procs :
        /\ op[p].name = "get_channels"
        /\ pc[p] = "done"
        /\ result[p].err = NoError
        /\ \E i, j, k \in 1..Len(log[p]) :
              /\ i < j /\ j < k
              /\ log[p][i].m = GetProducts
              /\ log[p][i].err = NoError
              /\ log[p][j].m = GetProducts
              /\ log[p][j].err = ToyaDecoderAuthError
              /\ log[p][k].m = GetProducts
              /\ log[p][k].params = log[p][i].params

\* Answers of toyago.GetAuth that hold no token
NoTokenBodies ==
    {PyNone, PyDict([faultCode |-> PyInt(5), faultString |-> PyStr(sBadParam)])}

\* C11: with an empty username or password no remote call is ever issued
\* and every operation that reaches login ends with AuthError; when the
\* answer of GetAuth holds no token, that call is the last one of the
\* operation (no SetVersion), the operation ends with AuthError and no
\* token is cached; after any other answer SetVersion is the next call.
C11_LoginFailsWithoutToken ==
    \A p \in Procs :
        /\ (username = <<>> \/ password = <<>>) =>
              /\ log[p] = <<>>
              /\ token = PyNone
              /\ pc[p] \notin {"SetVersion", "call", "sleep"}
              /\ pc[p] = "done" => result[p].err \in {ToyaDecoderAuthError, ToyaDecoderApiError}
              /\ (pc[p] = "done" /\ op[p].name \in {"get_devices", "get_state", "get_channels"})
                    => result[p].err = ToyaDecoderAuthError
        /\ \A i \in 1..Len(log[p]) :
              (/\ log[p][i].m = GetAuth
               /\ log[p][i].err = NoError)
                  => IF i = Len(log[p]) /\ last_res[p] \in NoTokenBodies
                     THEN /\ pc[p] = "done"
                          /\ result[p].err = ToyaDecoderAuthError
                          /\ token = PyNone
                     ELSE /\ i = Len(log[p]) => pc[p] = "SetVersion"
                          /\ i < Len(log[p]) => log[p][i + 1].m = SetVersion

C11_Witness ==
    \E p \in Procs :
        /\ op[p].name = "send_key"
        /\ pc[p] = "done"
        /\ Len(log[p]) = 2
        /\ log[p][1].m = SetStbCmd
        /\ log[p][1].err = ToyaDecoderAuthError
        /\ log[p][2].m = GetAuth
        /\ log[p][2].err = NoError
        /\ last_res[p] = PyNone
        /\ result[p].err = ToyaDecoderAuthError

\* The token each token-bearing answer of toyago.GetAuth holds
TokenOf(body) ==
    CASE body = PyStr(sT1) -> PyStr(sT1)
      [] body = PyStr(<<"t", "o", "k", "e", "n", "=">> \o sT2 \o <<";">>) -> PyStr(sT2)
      [] body = PyDict([result |-> PyDict([token |-> PyStr(sT1)])]) -> PyStr(sT1)
      [] OTHER -> PyNone

\* C12: a login calls GetAuth and, as the next remote call, SetVersion with
\* the device id, "{version}-{model}" and the token extracted from the
\* answer of GetAuth; the token is not cached while SetVersion is
\* outstanding and is cached once it returned; when SetVersion fails its
\* error ends the operation and nothing is cached, and an operation that
\* starts with an empty cache calls GetAuth first.
C12_SetVersionThenCache ==
    \A p \in Procs :
        LET l == log[p]
        IN /\ pc[p] = "SetVersion" =>
                /\ l # <<>>
                /\ l[Len(l)].m = GetAuth
                /\ l[Len(l)].err = NoError
                /\ Truthy(tok[p])
                /\ tok[p] = TokenOf(last_res[p])
                /\ token = PyNone
           /\ (l # <<>> /\ l[1].cached = PyNone) => l[1].m = GetAuth
           /\ \A i \in 1..Len(l) :
                /\ (l[i].m = GetAuth /\ i < Len(l)) =>
                      l[i].err = NoError /\ l[i + 1].m = SetVersion
                /\ l[i].m = SetVersion =>
                      /\ i > 1
                      /\ l[i - 1].m = GetAuth
                      /\ l[i].params = <<device_id, version_model>>
                      /\ Truthy(l[i].tok)
                      /\ l[i].cached = PyNone
                      /\ i = Len(l) => l[i].tok = tok[p]
                      /\ (i = Len(l) /\ l[i].err = NoError) =>
                            pc[p] = "call" /\ token = l[i].tok
                      /\ l[i].err # NoError =>
                            /\ i = Len(l)
                            /\ pc[p] = "done"
                            /\ result[p].err = l[i].err
                            /\ token = PyNone

C12_Witness ==
    \E p \in Procs :
        /\ pc[p] = "done"
        /\ MethodsOf(log[p]) = <<GetAuth, SetVersion>>
        /\ log[p][2].err = ToyaDecoderApiError
        /\ log[p][2].tok = PyStr(sT2)
        /\ result[p].err = ToyaDecoderApiError
        /\ token = PyNone

\* The documented order of the search of get_channels
ComboList ==
    <<<<"channel_dvb", -1, -1, TRUE>>, <<"channel_dvb", -1, -1, FALSE>>,
      <<"channel_dvb", 0, 1, FALSE>>, <<"channel", -1, -1, TRUE>>,
      <<"channel", -1, -1, FALSE>>, <<"channel", 0, 1, FALSE>>>>

\* The channels each answer of toyago.GetProducts holds
YieldOf(body) ==
    CASE body = PyStr(<<"<object type=\"product\" id=\"5\">", "x", ObjectClose>>) ->
            <<[id |-> <<"5">>, number |-> PyNone, name |-> PyNone, thumbnail |-> PyNone]>>
      [] body = PyDict([products |-> PyList(
                    <<PyStr(<<"<object type=\"product\" id=\"7\">">>),
                      PyStr(<<ObjectClose>>)>>)]) ->
            <<[id |-> <<"7">>, number |-> PyNone, name |-> PyNone, thumbnail |-> PyNone]>>
      [] OTHER -> <<>>

\* The place of call i in its search: GetProducts calls since the last
\* call of another method
PlaceInSearch(l, i) ==
    i - Cardinality({j \in 1..i : \E k \in j..i : l[k].m # GetProducts})

\* C13: the k-th GetProducts call of a search carries the k-th combination
\* of the documented order and a search makes at most 6 calls; an answer
\* that holds channels ends the operation at once with those channels, so
\* that no GetProducts call follows it.
C13_SearchOrder ==
    \A p \in Procs :
        op[p].name = "get_channels" =>
            LET l == log[p]
                n == Len(l)
            IN /\ \A i \in 1..n :
                    l[i].m = GetProducts =>
                        /\ PlaceInSearch(l, i) \in 1..6
                        /\ l[i].params = ComboList[PlaceInSearch(l, i)]
               /\ (n > 0 /\ l[n].m = GetProducts /\ l[n].err = NoError) =>
                    IF YieldOf(last_res[p]) # <<>>
                    THEN /\ pc[p] = "done"
                         /\ result[p] = [err |-> NoError, val |-> YieldOf(last_res[p])]
                    ELSE pc[p] = "call" => ci[p] = PlaceInSearch(l, n) + 1

C13_Witness ==
    \E p \in Procs :
        /\ op[p].name = "get_channels"
        /\ pc[p] = "done"
        /\ Len(log[p]) = 6
        /\ log[p][6].params = <<"channel", -1, -1, TRUE>>
        /\ result[p] = [err |-> NoError, val |-> <<[id |-> <<"7">>, number |-> PyNone, name |-> PyNone, thumbnail |-> PyNone]>>]

\* Answers of toyago.GetProducts that normalize to "" or "[object Object]"
BlankBodies == {PyNone, PyStr(<<>>), PyStr(sObjectObject)}

\* C14: an answer without channels, blank ones included, is no error: it
\* moves the search on while combinations are left; when the sixth answer
\* of a search holds no channel either, get_channels fails with ApiError,
\* and it fails that way only then; it never returns an empty list.
C14_NoChannels ==
    \A p \in Procs :
        op[p].name = "get_channels" =>
            LET l == log[p]
                n == Len(l)
                answered == n > 0 /\ l[n].m = GetProducts /\ l[n].err = NoError
                barren == answered /\ YieldOf(last_res[p]) = <<>>
            IN /\ (answered /\ last_res[p] \in BlankBodies) => barren
               /\ (barren /\ PlaceInSearch(l, n) < 6) =>
                    (pc[p] = "call" /\ result[p] = NoResult)
               /\ (barren /\ PlaceInSearch(l, n) = 6) =>
                    /\ pc[p] = "done"
                    /\ result[p].err = ToyaDecoderApiError
                    /\ \A i \in (n - 5)..n : l[i].m = GetProducts /\ l[i].err = NoError
               /\ (pc[p] = "done" /\ result[p].err = ToyaDecoderApiError /\ n > 0) =>
                    (l[n].err = NoError => (barren /\ PlaceInSearch(l, n) = 6))
               /\ (pc[p] = "done" /\ result[p].err = NoError) => result[p].val # <<>>

C14_Witness ==
    \E p \in Procs :
        /\ op[p].name = "get_channels"
        /\ pc[p] = "done"
        /\ result[p].err = ToyaDecoderApiError
        /\ Len(log[p]) = 8
        /\ log[p][8].err = NoError
        /\ last_res[p] = PyStr(sObjectObject)

\* Arguments of send_key that are not acceptable: a smart card that is
\* blank, a key that is no single digit character and no command name.
\* (The superscript two is a digit character for str.isdigit(); what
\* becomes of it is the matter of C16.)
BlankCards == {<<" ">>}
RejectedKeys == {<<"b", "o", "g", "u", "s">>, <<"1", "2">>, <<>>}

\* C15: a send_key with a blank smart card or a key that is neither a
\* single digit character nor a command name ends in the very step that
\* begins it, with ApiError, without any remote call (no GetAuth is
\* counted, the history stays empty) and with the cached token unchanged.
C15_RejectedBeforeAnyCall ==
    [][\A p \in Procs :
          (/\ pc[p] = "idle"
           /\ op'[p].name = "send_key"
           /\ (op'[p].smart_card \in BlankCards \/ op'[p].key \in RejectedKeys))
              => /\ pc'[p] = "done"
                 /\ result'[p].err = ToyaDecoderApiError
                 /\ log'[p] = <<>>
                 /\ nGetAuth' = nGetAuth
                 /\ token' = token]_vars

C15_Witness ==
    \E p \in Procs :
        /\ op[p].name = "send_key"
        /\ op[p].smart_card = <<"0", "0", "1">>
        /\ op[p].key = <<"1", "2">>
        /\ pc[p] = "done"
        /\ result[p].err = ToyaDecoderApiError
        /\ log[p] = <<>>
        /\ Truthy(token)

\* C16: every command that reaches toyago.SetStbCmd is one of the
\* recognized commands.
C16_OnlyRecognizedCommands ==
    \A p \in Procs : \A i \in 1..Len(log[p]) :
        log[p][i].m = SetStbCmd => log[p][i].params[2] \in REMOTE_COMMANDS

\* Channel arguments that are not all digits once trimmed
RejectedChannels == {<<"1", "2", "a">>, <<>>}

\* The digits of a channel argument that is all digits once trimmed
DigitsOf(channel) == SelectSeq(channel, LAMBDA ch : ch # " ")

\* The key presses of caller p that the decoder accepted
Passed(p) == {k \in MainCalls(p) : log[p][k].err = NoError}

\* C17: set_channel presses the digits of the channel from left to right,
\* each press being the digit after those already accepted, and it returns
\* when all of them were accepted; a further press begins only after the
\* previous one was accepted and, with a positive key delay, the sleep is
\* over; a channel that is not all digits ends the operation in its first
\* step with ApiError and without any remote call.
C17_DigitsInOrder ==
    /\ [](\A p \in Procs :
            (op[p].name = "set_channel" /\ op[p].channel_arg \notin RejectedChannels) =>
                LET l == log[p]
                    ds == DigitsOf(op[p].channel_arg)
                IN /\ \A k \in MainCalls(p) :
                        /\ Rank(Passed(p), k - 1) < Len(ds)
                        /\ l[k].params[2] = <<ds[Rank(Passed(p), k - 1) + 1]>>
                   /\ (pc[p] = "done" /\ result[p].err = NoError) =>
                        Cardinality(Passed(p)) = Len(ds)
                   /\ pc[p] = "sleep" =>
                        /\ key_delay_s > 0
                        /\ l # <<>>
                        /\ l[Len(l)].m = SetStbCmd
                        /\ l[Len(l)].err = NoError)
    /\ [][\A p \in Procs :
            /\ (/\ pc[p] = "idle"
                /\ op'[p].name = "set_channel"
                /\ op'[p].channel_arg \in RejectedChannels)
                  => /\ pc'[p] = "done"
                     /\ result'[p].err = ToyaDecoderApiError
                     /\ log'[p] = <<>>
                     /\ nGetAuth' = nGetAuth
                     /\ token' = token
            /\ (/\ op[p].name = "set_channel"
                /\ pc[p] \in {"GetAuth", "SetVersion", "call", "sleep"}
                /\ Len(digits'[p]) < Len(digits[p]))
                  => IF key_delay_s > 0 THEN pc[p] = "sleep"
                     ELSE /\ pc[p] = "call"
                          /\ Len(log'[p]) = Len(log[p]) + 1
                          /\ log'[p][Len(log'[p])].err = NoError]_vars

C17_Witness ==
    \E p \in Procs :
        /\ op[p].name = "set_channel"
        /\ op[p].channel_arg = <<"2", "1">>
        /\ key_delay_s > 0
        /\ pc[p] = "done"
        /\ result[p].err = NoError
        /\ Len(log[p]) = 2
        /\ log[p][1].params[2] = <<"2">>
        /\ log[p][2].params[2] = <<"1">>

\* Some two callers are inside _login together
BothInLogin ==
    \E p, q \in Procs :
        p # q /\ pc[p] \in {"GetAuth", "SetVersion"} /\ pc[q] \in {"GetAuth", "SetVersion"}

\* C18: while the callers serialize their operations no auth-fault handler
\* clears a token that another caller cached and that never failed, and no
\* two callers are inside the login together; without serialization both
\* happen.
C18_SerializedNoRace == serialized => (cleared # "fresh" /\ ~BothInLogin)

C18_Witness ==
    /\ ~serialized
    /\ cleared = "fresh"
    /\ pc["poll"] = "GetAuth"
    /\ pc["cmd"] = "GetAuth"

\* ---- C19 --------------------------------------------------------------
\* The statuses of the devices each device-list answer of the server holds
StatusesOf(body) ==
    CASE body = PyList(<<DeviceEntry(<<"0", "0", "1">>, PyInt(1))>>) -> <<"ON">>
      [] body = PyList(<<DeviceEntry(<<"0", "0", "1">>, PyInt(7))>>) -> <<"UNKNOWN">>
      [] body = PyList(<<DeviceEntry(<<"0", "0", "1">>, PyInt(0)),
                         DeviceEntry(<<"0", "0", "2">>, PyInt(1))>>) -> <<"OFF", "ON">>
      [] body = PyDict([devices |-> PyList(
                    <<DeviceEntry(<<"0", "0", "1">>, PyInt(0)),
                      DeviceEntry(<<"0", "0", "2">>, PyStr(<<"2">>))>>)]) -> <<"OFF", "ATV">>
      [] OTHER -> <<>>

\* C19: a get_state that returns gives is_on = TRUE exactly when some
\* device of the list its last GetPvrDevices call fetched has status ON; an
\* empty list and lists of OFF, ATV or UNKNOWN devices give FALSE.
C19_IsOnIffSomeDeviceOn ==
    \A p \in Procs :
        (op[p].name = "get_state" /\ pc[p] = "done" /\ result[p].err = NoError) =>
            /\ log[p][Len(log[p])].m = GetPvrDevices
            /\ result[p].val.is_on =
                  (\E i \in 1..Len(StatusesOf(last_res[p])) :
                        StatusesOf(last_res[p])[i] = "ON")

\* A get_state has answered TRUE on a list of an OFF and an ON device
C19_Witness ==
    \E p \in Procs :
        /\ op[p].name = "get_state" /\ pc[p] = "done" /\ result[p].err = NoError
        /\ StatusesOf(last_res[p]) = <<"OFF", "ON">>
        /\ result[p].val.is_on

\* A get_state has answered FALSE on a list holding only an UNKNOWN device
C19_WitnessUnknown ==
    \E p \in Procs :
        /\ op[p].name = "get_state" /\ pc[p] = "done" /\ result[p].err = NoError
        /\ StatusesOf(last_res[p]) = <<"UNKNOWN">>
        /\ ~result[p].val.is_on

\* ---- C20 --------------------------------------------------------------
\* The number a status value spells, 0 when it is missing or spells none
StatusNumber(status) ==
    CASE status = Absent -> 0
      [] status = PyStr(<<"1">>) -> 1
      [] status = PyStr(<<" ", "2", " ">>) -> 2
      [] status = PyFloat("", 15) -> 1
      [] status.t = "int" -> status.v
      [] OTHER -> 0

StatusName(n) ==
    CASE n = 0 -> "OFF" [] n = 1 -> "ON" [] n = 2 -> "ATV" [] OTHER -> "UNKNOWN"

\* The text of a field value
FieldText(value) == IF value = PyInt(0) THEN <<"0">> ELSE value.v

\* The devices one entry stands for: one if it has a non-empty smartcard and
\* a chipid, none otherwise
DevicesFor(smartcard, chipid, status) ==
    IF smartcard.t = "str" /\ smartcard.v # <<>> /\ chipid \notin {Absent, PyNone}
    THEN <<[smart_card |-> FieldText(smartcard),
            status |-> StatusName(StatusNumber(status)),
            chip_id |-> FieldText(chipid)]>>
    ELSE <<>>

RECURSIVE ExpectedFrom(_, _)
ExpectedFrom(g, i) ==
    IF i > g.n THEN <<>>
    ELSE (IF i = g.pos THEN DevicesFor(g.smartcard, g.chipid, g.status)
          ELSE IF g.fill[i] = "kept"
          THEN DevicesFor(PyStr(<<"0", "0", "2">>), PyStr(<<"c", "1">>), PyInt(1))
          ELSE <<>>)
         \o ExpectedFrom(g, i + 1)

\* C20: for a list of keyed entries, bare or under "devices", parse_devices
\* returns in input order one Device per entry with a non-empty smartcard
\* and a present chipid and none for the others; a missing or non-numeric
\* status is OFF and an integer outside 0..2 is UNKNOWN.
C20_KeyedDevices ==
    dOut.done => (dOut.err = NoError /\ dOut.devices = ExpectedFrom(dGen, 1))

\* What does hold: the same, for every status but an infinite float
C20_FiniteStatuses ==
    (dOut.done /\ dGen.status \notin {PyFloat("inf", 0)}) =>
        (dOut.err = NoError /\ dOut.devices = ExpectedFrom(dGen, 1))

\* A two-entry list under "devices" was parsed: a dropped filler, then the
\* entry under test with status 7, which came out as the only device, UNKNOWN
C20_Witness ==
    /\ dOut.done
    /\ dGen.n = 2 /\ dGen.pos = 2 /\ dGen.fill[1] = "dropped" /\ dGen.wrap
    /\ dGen.smartcard = PyStr(<<"0", "0", "1">>) /\ dGen.chipid = PyStr(<<"c", "9">>)
    /\ dGen.status = PyInt(7)
    /\ Len(dOut.devices) = 1
    /\ dOut.devices[1].status = "UNKNOWN"

\* ---- C21 --------------------------------------------------------------
\* The elements of a sequence
Range(seq) == {seq[i] : i \in 1..Len(seq)}

\* C21: parse_devices gives the same set of Devices for a legacy blob of
\* key=value records as for the same records given as keyed entries.
C21_LegacyAsKeyed ==
    dOut.done => Range(dOut.devices) = Range(dOut.keyed)

\* Every record of the input carries all three keys
AllFull == \A i \in 1..Len(dGen.recs) : dGen.recs[i].shape \in {"full", "statusFirst"}

\* What does hold: the same, and in the same order, when every record
\* carries smartcard, chipid and status
C21_FullRecords ==
    (dOut.done /\ AllFull) => dOut.devices = dOut.keyed

\* Two full records in a bracketed blob were parsed into two devices
C21_Witness ==
    /\ dOut.done
    /\ AllFull
    /\ dGen.wrap = "list"
    /\ Len(dOut.devices) = 2
    /\ dOut.devices = dOut.keyed

\* ---- C29 --------------------------------------------------------------
\* Record i of the input carries key k
Carries(i, k) ==
    \E j \in 1..Len(RecordShapes[dGen.recs[i].shape]) :
        RecordShapes[dGen.recs[i].shape][j] = k

\* The status a status text stands for
StatusOfText(text) ==
    CASE text = <<"1">> -> "ON" [] text = <<"7">> -> "UNKNOWN" [] OTHER -> "OFF"

\* Device d has its three fields from record i
FromRecord(d, i) ==
    /\ Carries(i, "smartcard") /\ d.smart_card = <<"0", "0", DigitChar[i + 1]>>
    /\ Carries(i, "chipid") /\ d.chip_id = <<"c", DigitChar[i + 1]>>
    /\ Carries(i, "status") /\ d.status = StatusOfText(dGen.recs[i].status)

\* C29: every Device the legacy path emits has its smart_card, chip_id and
\* status from one record of the blob, also when records lack a key.
C29_OneRecordPerDevice ==
    dOut.done =>
        \A n \in 1..Len(dOut.devices) :
            \E i \in 1..Len(dGen.recs) : FromRecord(dOut.devices[n], i)

\* What does hold: the same when every record carries all three keys
C29_FullRecords ==
    (dOut.done /\ AllFull) =>
        /\ Len(dOut.devices) = Len(dGen.recs)
        /\ \A n \in 1..Len(dOut.devices) : FromRecord(dOut.devices[n], n)

\* A device was emitted from a blob in which a record lacks a key
C29_Witness ==
    /\ dOut.done
    /\ ~AllFull
    /\ Len(dOut.devices) >= 1
    /\ \A i \in 1..Len(dGen.recs) : ~FromRecord(dOut.devices[1], i)

\* ---- C24 --------------------------------------------------------------
\* The text an attr of the product gives: its value, trimmed and with the
\* entities resolved; <<>> when the attr is missing or holds nothing
TextOfAttr(value) ==
    CASE value = PyStr(<<"T", "V", "P">>) -> <<"T", "V", "P">>
      [] value = PyStr(<<" ", "N", "&amp;", "W", " ">>) -> <<"N", "&", "W">>
      [] value = PyStr(<<"S", "T">>) -> <<"S", "T">>
      [] value = PyStr(<<"1", "2">>) -> <<"1", "2">>
      [] value = PyStr(<<"x">>) -> <<"x">>
      [] value = PyStr(<<" ", "7", " ">>) -> <<" ", "7", " ">>
      [] value = PyStr(<<"3">>) -> <<"3">>
      [] value = PyStr(<<"4">>) -> <<"4">>
      [] value = PyStr(<<"x", "9">>) -> <<"x", "9">>
      [] OTHER -> <<>>

\* The first text of the attrs `keys` that is not empty, <<>> if none
RECURSIVE FirstText(_, _)
FirstText(g, keys) ==
    IF keys = <<>> THEN <<>>
    ELSE IF TextOfAttr(g[Head(keys)]) # <<>> THEN TextOfAttr(g[Head(keys)])
    ELSE FirstText(g, Tail(keys))

\* The integer a text spells, PyNone if it spells none
NumberOfText(text) ==
    CASE text = <<"1", "2">> -> PyInt(12)
      [] text = <<" ", "7", " ">> -> PyInt(7)
      [] text = <<"3">> -> PyInt(3)
      [] text = <<"4">> -> PyInt(4)
      [] OTHER -> PyNone

\* Channel ch is the one the product under test stands for
AsClaimed(ch, g) ==
    LET name == FirstText(g, <<"name", "shortTitle">>)
        number == FirstText(g, <<"number", "channel_number", "lcn", "position">>)
    IN /\ ch.id = <<"5">>
       /\ IF name = <<>> THEN ~Truthy(ch.name) ELSE ch.name = PyStr(name)
       /\ ch.number = NumberOfText(number)

\* The filler product: id 7, name F, no number
IsFiller(ch) == ch.id = <<"7">> /\ ch.name = PyStr(<<"F">>) /\ ch.number = PyNone

\* One channel per product, in document order, each as claimed
ChannelsAsClaimed ==
    CASE dGen.layout = "alone" ->
            Len(dOut.channels) = 1 /\ AsClaimed(dOut.channels[1], dGen)
      [] dGen.layout = "after" ->
            /\ Len(dOut.channels) = 2
            /\ IsFiller(dOut.channels[1]) /\ AsClaimed(dOut.channels[2], dGen)
      [] dGen.layout = "before" ->
            /\ Len(dOut.channels) = 2
            /\ AsClaimed(dOut.channels[1], dGen) /\ IsFiller(dOut.channels[2])

\* C24: parse_channels gives one Channel per product block, in document
\* order, with the block's id, the name of attr name else shortTitle, and
\* the first non-empty of number, channel_number, lcn, position as an
\* integer or absent; values are entity-unescaped.
C24_ChannelFields ==
    dOut.done => ChannelsAsClaimed

\* What does hold: the same when the name attr, if there, holds a value
C24_ValuedAttrs ==
    (dOut.done /\ dGen.name # NoValue) => ChannelsAsClaimed

\* A product after the filler: an empty name, so shortTitle; number x, so
\* no number although lcn holds 4
C24_Witness ==
    /\ dOut.done
    /\ dGen.layout = "after"
    /\ dGen.name = PyStr(<<>>) /\ dGen.shortTitle = PyStr(<<"S", "T">>)
    /\ dGen.number = PyStr(<<"x">>) /\ dGen.lcn = PyStr(<<"4">>)
    /\ dOut.channels[2].name = PyStr(<<"S", "T">>)
    /\ dOut.channels[2].number = PyNone

\* ---- C22 --------------------------------------------------------------
\* C22: whatever the shape of the answer, parse_devices,
\* extract_products_xml and parse_channels return a result and do not raise.
C22_ParsersNeverRaise ==
    dOut.done => dOut.err = NoError

\* What does hold: extract_products_xml, and parse_channels on its text,
\* never raise; parse_devices raises only on a keyed entry whose status is
\* an infinite float; parse_channels raises only on what is not a str
C22_WhereParsersRaise ==
    (dOut.done /\ dOut.err # NoError) =>
        \/ /\ dOut.fn = "parse_devices"
           /\ dOut.err = "OverflowError"
           /\ dGen.inner = PyList(<<InfStatusEntry>>)
           /\ dGen.wrap \in {"bare", "devices"}
        \/ /\ dOut.fn = "parse_channels"
           /\ dOut.err = "TypeError"
           /\ dRes.t # "str"

\* parse_devices has returned an empty list for a list of non-keyed items
C22_Witness ==
    /\ dOut.done
    /\ dOut.fn = "parse_devices"
    /\ dGen = [wrap |-> "devices", inner |-> PyList(<<PyInt(1), PyNone>>)]
    /\ dOut.err = NoError
    /\ dOut.out = <<>>

\* parse_devices has raised on the entry with the infinite status
C22_DevicesRaised ==
    /\ dOut.done
    /\ dOut.fn = "parse_devices"
    /\ dOut.err = "OverflowError"

\* ---- C26 --------------------------------------------------------------
\* The smart cards the input carries that are not empty, as text
CardsGiven ==
    IF dGen.path = "keyed"
    THEN LET g == dGen.g
         IN (IF g.n > 0 /\ g.smartcard.t = "str" /\ g.smartcard.v # <<>>
             THEN {g.smartcard.v} ELSE {})
            \cup {<<"0", "0", "2">>}
    ELSE {<<"0", "0", DigitChar[i + 1]>> : i \in 1..Len(dGen.g.recs)}

\* The chip ids the input carries, as text
ChipsGiven ==
    IF dGen.path = "keyed"
    THEN LET g == dGen.g
         IN (IF g.n = 0 \/ g.chipid \in {Absent, PyNone} THEN {}
             ELSE IF g.chipid = PyInt(0) THEN {<<"0">>} ELSE {g.chipid.v})
            \cup {<<"c", "1">>}
    ELSE {<<"c", DigitChar[i + 1]>> : i \in 1..Len(dGen.g.recs)}

\* C26: on both paths every Device returned has a smart_card that is not
\* empty and a chip_id the input carried.
C26_DevicesHaveIds ==
    (dOut.done /\ dOut.err = NoError) =>
        \A n \in 1..Len(dOut.devices) :
            /\ dOut.devices[n].smart_card # <<>>
            /\ dOut.devices[n].smart_card \in CardsGiven
            /\ dOut.devices[n].chip_id \in ChipsGiven

\* A keyed entry with an empty chipid text came out as a Device
C26_Witness ==
    /\ dOut.done
    /\ dGen.path = "keyed"
    /\ dGen.g.n = 1
    /\ dGen.g.chipid = PyStr(<<>>)
    /\ Len(dOut.devices) = 1
    /\ dOut.devices[1].chip_id = <<>>

\* A legacy blob with a record lacking its chipid gave a Device all the same
C26_WitnessLegacy ==
    /\ dOut.done
    /\ dGen.path = "legacy"
    /\ \E i \in 1..Len(dGen.g.recs) : dGen.g.recs[i].shape = "noChip"
    /\ Len(dOut.devices) >= 1

\* ---- C23 --------------------------------------------------------------
\* C23: cleaning a cleaned token changes nothing; "token=ABC123;" and the
\* quoted "ABC123" both give ABC123.
C23_NormalizeIdempotent ==
    dOut.done =>
        /\ dOut.twice = dOut.once
        /\ dRes \in {sTokenEqABC, sQuotedABC} =>
              dOut.once = <<"A", "B", "C", "1", "2", "3">>

\* What does hold: the two examples, and idempotence on the strings that
\* hold no "=", no ";" and no quote, which come out trimmed
C23_PlainTokens ==
    dOut.done =>
        /\ dRes \in {sTokenEqABC, sQuotedABC} =>
              (dOut.once = <<"A", "B", "C", "1", "2", "3">> /\ dOut.twice = dOut.once)
        /\ (\A i \in 1..Len(dRes) : dRes[i] \in {"A", " "}) =>
              (dOut.once = Strip(dRes) /\ dOut.twice = dOut.once)

\* "token=ABC123;" was cleaned to ABC123, and cleaning that again kept it
C23_Witness ==
    /\ dOut.done
    /\ dRes = sTokenEqABC
    /\ dOut.once = <<"A", "B", "C", "1", "2", "3">>
    /\ dOut.twice = dOut.once

\* A clean token ending in "=" was cleaned to nothing
C23_PaddedTokenLost ==
    /\ dOut.done
    /\ dRes = <<"A", "A", "=">>
    /\ dOut.once = <<>>

-----------------------------------------------------------------------------
(* coordinator.py, config_flow.py, __init__.py: what the host platform     *)
(* sees.  The host's caller runs the client operations above; a host step  *)
(* turns the outcome of the client into the outcome of the host function.  *)
(* dGen is the host function that runs, dRes the number of refreshes that  *)
(* are over, dOut the outcome of the host function.                        *)

MaxPolls == 2

HostCaller == "poll"
HostFlows == {"user", "poll", "setup"}
UpdateFailed == "UpdateFailed"

\* The host function has not ended yet
HostRunning == ~dOut.done

HostOutcome(err, base, entry, data) ==
    [done |-> TRUE, err |-> err, devices |-> data, base |-> base, entry |-> entry]

InitHost ==
    /\ ClientInit
    /\ serialized = TRUE
    /\ CallIdle
    /\ dGen \in HostFlows
    /\ dRes = 0
    /\ dOut = Unparsed

\* async_step_user up to `await api.async_login()` of _validate_input, for a
\* user name that is not configured yet; without user_input the form is shown
async_step_user_begin(p) ==
    /\ dGen = "user"
    /\ HostRunning
    /\ pc[p] = "idle"
    /\ \/ /\ dOut' = HostOutcome(NoError, "none", FALSE, <<>>)
          /\ UNCHANGED <<clientVars, callVars, dGen, dRes>>
       \/ Apply(p, async_login(Enter(p, "login")))

\* _validate_input: async_login has returned, async_get_devices begins
_validate_input(p) ==
    /\ dGen = "user"
    /\ pc[p] = "call"
    /\ op[p].name = "login"
    /\ Apply(p, async_login(Enter(p, "get_devices")))

\* async_step_user: errors["base"] of the exception or of the empty list,
\* else async_create_entry
async_step_user(p) ==
    /\ dGen = "user"
    /\ HostRunning
    /\ pc[p] = "done"
    /\ \E err \in {result[p].err}, devices \in {result[p].val} :
          /\ dOut' = CASE err = ToyaDecoderAuthError ->
                                HostOutcome(NoError, "invalid_auth", FALSE, <<>>)
                        [] err = ToyaDecoderConnectionError ->
                                HostOutcome(NoError, "cannot_connect", FALSE, <<>>)
                        [] err \notin {NoError, ToyaDecoderAuthError,
                                       ToyaDecoderConnectionError} ->
                                HostOutcome(NoError, "unknown", FALSE, <<>>)
                        [] err = NoError /\ devices = <<>> ->
                                HostOutcome(NoError, "no_devices", FALSE, <<>>)
                        [] OTHER -> HostOutcome(NoError, "none", TRUE, devices)
    /\ UNCHANGED <<clientVars, callVars, dGen, dRes>>

\* _async_update_data (and the first refresh of async_setup_entry) up to
\* `await self.api.async_get_devices()`
_async_update_data_begin(p) ==
    /\ dGen \in {"poll", "setup"}
    /\ HostRunning
    /\ async_get_devices(p)

\* _async_update_data: the device list, or UpdateFailed for any exception
_async_update_data(p) ==
    /\ dGen = "poll"
    /\ HostRunning
    /\ pc[p] = "done"
    /\ dOut' = IF result[p].err # NoError
               THEN HostOutcome(UpdateFailed, "none", TRUE, <<>>)
               ELSE HostOutcome(NoError, "none", TRUE, result[p].val)
    /\ UNCHANGED <<clientVars, callVars, dGen, dRes>>

\* async_setup_entry: the first refresh fails with what _async_update_data
\* raised, else the entry is set up and True is returned
async_setup_entry(p) ==
    /\ dGen = "setup"
    /\ HostRunning
    /\ pc[p] = "done"
    /\ dOut' = IF result[p].err # NoError
               THEN HostOutcome(UpdateFailed, "none", FALSE, <<>>)
               ELSE HostOutcome(NoError, "none", TRUE, result[p].val)
    /\ UNCHANGED <<clientVars, callVars, dGen, dRes>>

\* The coroutine of the poll is over
HostFinish(p) ==
    /\ dGen = "poll"
    /\ ~HostRunning
    /\ Finish(p)

\* update_interval has passed: the next poll, on the same client
Refresh(p) ==
    /\ dGen = "poll"
    /\ ~HostRunning
    /\ pc[p] = "idle"
    /\ dRes < MaxPolls
    /\ dRes' = dRes + 1
    /\ dOut' = Unparsed
    /\ UNCHANGED <<clientVars, callVars, dGen>>

NextHost ==
    \E p \in {HostCaller} :
        \/ async_step_user_begin(p)
        \/ _validate_input(p)
        \/ async_step_user(p)
        \/ _async_update_data_begin(p)
        \/ _async_update_data(p)
        \/ async_setup_entry(p)
        \/ HostFinish(p)
        \/ Refresh(p)
        \/ _login_GetAuth(p)
        \/ _login_SetVersion(p)
        \/ _get_pvr_devices(p)

SpecHost == InitHost /\ [][NextHost]_vars

\* The call a step of caller p has just added to its history
Answered(p, e) == log'[p] = Append(log[p], e)

\* A step in which the login of caller p completes: SetVersion is answered
\* without an error and the token extracted from GetAuth is cached
LoginCompletes(p) ==
    /\ pc[p] = "SetVersion"
    /\ \E e \in {log'[p][Len(log'[p])]} :
          /\ Answered(p, e)
          /\ e.m = SetVersion
          /\ e.err = NoError
    /\ token' = tok[p]
    /\ token'.t = "str"
    /\ token'.v # <<>>

\* A step in which the first remote call of caller p's operation is
\* answered with AuthError and the operation's handler clears the token
HandlerClears(p) ==
    /\ pc[p] = "call"
    /\ ~retry[p]
    /\ op[p].name \in {"send_key", "set_channel", "get_devices", "get_state", "get_channels"}
    /\ \E e \in {log'[p][Len(log'[p])]} :
          /\ Answered(p, e)
          /\ e.m = MainMethod(op[p].name)
          /\ e.err = ToyaDecoderAuthError
    /\ token' = PyNone

\* C27: the cached token has one writer path: it changes only in a step
\* that completes a login (SetVersion answered without error; the new
\* token is a non-empty text) or in a step where the AuthError handler of
\* an operation's first remote call clears it; it is never the empty text.
C27_OneWriterPath ==
    /\ [](token # PyStr(<<>>))
    /\ [][token' # token =>
            \E p \in Procs : LoginCompletes(p) \/ HandlerClears(p)]_vars

\* A handler has cleared a token that a login had cached
C27_Witness ==
    \E p \in Procs :
        /\ reauth[p] = 1
        /\ pc[p] = "GetAuth"
        /\ token = PyNone
        /\ loginTok # PyNone
        /\ log[p][Len(log[p])].cached # PyNone

\* The calls of caller p's history that failed with an error the handler
\* of the operation does not catch
HardFailures(p) ==
    {i \in 1..Len(log[p]) :
        /\ log[p][i].m = GetProducts
        /\ log[p][i].err \in {ToyaDecoderConnectionError, ToyaDecoderApiError}}

\* C28: in get_channels a GetProducts call that fails with ConnectionError
\* or with a non-auth ApiError is the last call of the operation: the
\* operation has ended with that error, and no later combination was tried.
C28_SearchEndsOnError ==
    \A p \in Procs :
        op[p].name = "get_channels" =>
            \A i \in HardFailures(p) :
                /\ i = Len(log[p])
                /\ pc[p] = "done"
                /\ result[p].err = log[p][i].err

\* The first combination (channel_dvb) was answered with an RPC fault: the
\* search is over and product type channel was never asked for
C28_Witness ==
    \E p \in Procs :
        /\ op[p].name = "get_channels"
        /\ pc[p] = "done"
        /\ result[p].err = ToyaDecoderApiError
        /\ MethodsOf(log[p]) = <<GetAuth, SetVersion, GetProducts>>
        /\ log[p][3].params = Combo(1)
        /\ log[p][3].err = ToyaDecoderApiError
        /\ \A i \in 1..Len(log[p]) : log[p][i].params[1] # "channel"

\* The SetStbCmd calls of caller p, in the order they were made
Presses(p) == SelectSeq(log[p], LAMBDA e : e.m = SetStbCmd)

\* How many of the first n key presses were accepted by the server
RECURSIVE Accepted(_, _)
Accepted(s, n) ==
    IF n = 0 THEN 0
    ELSE Accepted(s, n - 1) + (IF s[n].err = NoError THEN 1 ELSE 0)

\* The digit of the channel the i-th key press belongs to
DigitOf(s, i) == Accepted(s, i - 1) + 1

\* C30: in set_channel every key press carries the digit that follows the
\* accepted ones, and when the k-th key press fails (its login, its call
\* after the one auth retry, or a ConnectionError or ApiError) the
\* operation ends at once with that error: digits 1..k-1 were accepted,
\* digit k was tried at most twice and never accepted, and the digits
\* after k are still unsent and stay so.
C30_FailedDigitEndsChannel ==
    /\ [](\A p \in Procs :
            (op[p].name = "set_channel" /\ op[p].channel # <<>>) =>
                \E s \in {Presses(p)} : \E n \in {Accepted(s, Len(s))} :
                    /\ \A i \in 1..Len(s) :
                          /\ DigitOf(s, i) <= Len(op[p].channel)
                          /\ s[i].params = <<Strip(op[p].smart_card),
                                             normalize_cmd(<<op[p].channel[DigitOf(s, i)]>>).cmd>>
                    /\ (pc[p] = "done" /\ result[p].err = NoError) =>
                          /\ n = Len(op[p].channel)
                          /\ digits[p] = <<>>
                    /\ (pc[p] = "done" /\ result[p].err # NoError) =>
                          /\ n < Len(op[p].channel)
                          /\ digits[p] = SubSeq(op[p].channel, n + 2, Len(op[p].channel))
                          /\ Cardinality({i \in 1..Len(s) : DigitOf(s, i) = n + 1}) <= 2)
    /\ [][\A p \in Procs :
             (pc[p] = "done" /\ op[p].name = "set_channel") =>
                 \/ UNCHANGED <<pc[p], log[p]>>
                 \/ pc'[p] = "idle" /\ log'[p] = <<>>]_vars

\* The second digit of channel 12 failed with an RPC fault after the
\* first was accepted
C30_Witness ==
    \E p \in Procs :
        /\ op[p].name = "set_channel"
        /\ op[p].channel = <<"1", "2">>
        /\ pc[p] = "done"
        /\ result[p].err = ToyaDecoderApiError
        /\ Len(Presses(p)) = 2
        /\ Presses(p)[1].err = NoError
        /\ Presses(p)[2].err = ToyaDecoderApiError
        /\ digits[p] = <<>>

\* The first digit of channel 12 failed after its one auth retry: the
\* second digit is still unsent
C30_WitnessRetry ==
    \E p \in Procs :
        /\ op[p].name = "set_channel"
        /\ op[p].channel = <<"1", "2">>
        /\ pc[p] = "done"
        /\ result[p].err = ToyaDecoderAuthError
        /\ Len(Presses(p)) = 2
        /\ Presses(p)[1].err = ToyaDecoderAuthError
        /\ Presses(p)[2].err = ToyaDecoderAuthError
        /\ digits[p] = <<"2">>

\* The host function has ended and the outcome of the client is at hand
HostEnded == dOut.done /\ pc[HostCaller] = "done"

\* What the host shows: in the setup flow the form comes back with an error
\* key; for a refresh the host starts a re-authentication flow when the
\* update raises ConfigEntryAuthFailed and marks the entities unavailable
\* until the next refresh when it raises UpdateFailed
ReauthPrompt ==
    IF dGen = "user" THEN dOut.base = "invalid_auth"
    ELSE dOut.err = "ConfigEntryAuthFailed"
TransientUnavailable ==
    IF dGen = "user" THEN dOut.base = "cannot_connect"
    ELSE dOut.err = UpdateFailed
SetupRejected ==
    /\ ~dOut.entry
    /\ IF dGen = "user" THEN dOut.base = "no_devices" ELSE dOut.err # NoError

\* C25: in the setup flow and in the periodic poll alike, an AuthError of
\* the client leads to a re-authentication prompt, a ConnectionError to a
\* transient-unavailable status, and an empty device list to a rejected
\* setup without a config entry.
C25_HostMapping ==
    HostEnded =>
        /\ result[HostCaller].err = ToyaDecoderAuthError => ReauthPrompt
        /\ result[HostCaller].err = ToyaDecoderConnectionError => TransientUnavailable
        /\ (result[HostCaller].err = NoError /\ result[HostCaller].val = <<>>)
               => SetupRejected

\* C25, the setup flow alone: invalid_auth, cannot_connect and no_devices
\* send the form back, and an entry is created only for a non-empty list
C25_SetupFlow ==
    (HostEnded /\ dGen = "user") =>
        /\ result[HostCaller].err = ToyaDecoderAuthError => ReauthPrompt
        /\ result[HostCaller].err = ToyaDecoderConnectionError => TransientUnavailable
        /\ (result[HostCaller].err = NoError /\ result[HostCaller].val = <<>>)
               => SetupRejected
        /\ dOut.entry => (result[HostCaller].err = NoError /\ dOut.devices # <<>>)

\* The setup flow was refused for an account without devices
C25_Witness ==
    /\ HostEnded
    /\ dGen = "user"
    /\ op[HostCaller].name = "get_devices"
    /\ result[HostCaller] = [err |-> NoError, val |-> <<>>]
    /\ dOut.base = "no_devices"
    /\ ~dOut.entry

\* C25, the poll: an AuthError of the client ends the refresh exactly as a
\* ConnectionError does, and an empty list is a successful refresh
C25_PollOutcome ==
    (HostEnded /\ dGen \in {"poll", "setup"}) =>
        /\ result[HostCaller].err # NoError => dOut.err = UpdateFailed
        /\ result[HostCaller].err = NoError =>
               (dOut.err = NoError /\ dOut.entry /\ dOut.devices = result[HostCaller].val)

\* A later poll, made with the cached token, ended with AuthError after
\* its one re-login
C25_PollAuthFailed ==
    /\ HostEnded
    /\ dGen = "poll"
    /\ dRes = 1
    /\ reauth[HostCaller] = 1
    /\ result[HostCaller].err = ToyaDecoderAuthError
    /\ dOut.err = UpdateFailed

====
